---- MODULE Spec2Model ----
(***************************************************************************)
(* A model of the market-sizing tool: the execution plan builder           *)
(* (services/query_segmenter.py), the job runner (jobs/market_sizing_job)  *)
(* and the job routes of app.py, against a model of the remote search      *)
(* gateway and of the persisted store.                                     *)
(***************************************************************************)
EXTENDS Integers, Sequences, FiniteSets, TLC

\* ------------------------------------------------------------------------
\* Bounds of the model
\* ------------------------------------------------------------------------

\* the number of company groups the gateway's index holds
MaxGroups == 3

\* ------------------------------------------------------------------------
\* services/query_segmenter.py: constants
\* ------------------------------------------------------------------------

EMPLOYEE_RANGES ==
    << "1-10", "11-20", "21-50", "51-100", "101-200", "201-500", "501-1000",
       "1001-2000", "2001-5000", "5001-10000", "10000+" >>

COUNTRIES == << "United States", "United Kingdom", "Canada" >>

MAX_RESULTS_PER_QUERY == 25000

\* rows of one result page: the 25 of (count + 24) // 25
PER_PAGE == 25

\* ------------------------------------------------------------------------
\* Filter sets.  A filter set is a dict (a function on the keys it holds);
\* the two keys the planner inspects are company_location_search and
\* company_headcount_range, every other key is carried along (here: one
\* opaque key, company_industry).
\* ------------------------------------------------------------------------

\* dict(d) followed by d[k] = v
SetKey(d, k, v) == [x \in DOMAIN d \cup {k} |-> IF x = k THEN v ELSE d[x]]

\* d.get(k, default)
Get(d, k, default) == IF k \in DOMAIN d THEN d[k] ELSE default

Range(s) == { s[i] : i \in 1..Len(s) }

\* the countries and headcount buckets that companies of the index can have;
\* Germany is a country outside COUNTRIES
IndexCountries == { "United States", "United Kingdom", "Germany" }
IndexRanges == { "1-10", "10000+" }

LocationValues ==
    { [include |-> {"United States"}, exclude |-> {}],
      [include |-> {"United States", "Germany"}, exclude |-> {}],
      [include |-> {}, exclude |-> {"United Kingdom"}] }

HeadcountValues == { {"1-10"}, {"1-10", "10000+"} }

IndustryValues == { "Software" }

BaseFilterSets ==
    [ company_location_search : LocationValues,
      company_headcount_range : HeadcountValues,
      company_industry : IndustryValues ]
    \cup [ company_location_search : LocationValues,
           company_headcount_range : HeadcountValues ]
    \cup [ company_location_search : LocationValues,
           company_industry : IndustryValues ]
    \cup [ company_headcount_range : HeadcountValues,
           company_industry : IndustryValues ]
    \cup [ company_location_search : LocationValues ]
    \cup [ company_headcount_range : HeadcountValues ]
    \cup [ company_industry : IndustryValues ]
    \cup { [x \in {} |-> {}] }

\* ------------------------------------------------------------------------
\* The remote search gateway (external): an index of companies, given as
\* groups of n companies that share country, headcount bucket and industry,
\* and the filter sets on which it answers with an error.
\* ------------------------------------------------------------------------

Multiplicities == { 1, MAX_RESULTS_PER_QUERY }

Groups ==
    [ country : IndexCountries, headcount : IndexRanges,
      industry : {"Software"}, n : Multiplicities ]
    \cup
    [ country : {"Germany"}, headcount : {"1-10"},
      industry : {"Retail"}, n : {1} ]

Indexes == { G \in SUBSET Groups : Cardinality(G) <= MaxGroups }

\* the error answers of the gateway: an explicit error flag with a code, or
\* an HTTP status >= 400 with neither
ErrorResponses ==
    { [error |-> TRUE, error_code |-> "INVALID_FILTERS", _http_status |-> 400],
      [_http_status |-> 500] }

\* does a company of group g match the filter set f
Matches(g, f) ==
    /\ \/ "company_location_search" \notin DOMAIN f
       \/ /\ \/ f.company_location_search.include = {}
             \/ g.country \in f.company_location_search.include
          /\ g.country \notin f.company_location_search.exclude
    /\ \/ "company_headcount_range" \notin DOMAIN f
       \/ g.headcount \in f.company_headcount_range
    /\ \/ "company_industry" \notin DOMAIN f
       \/ g.industry = f.company_industry

RECURSIVE SumN(_)
SumN(S) ==
    IF S = {} THEN 0
    ELSE LET g == CHOOSE x \in S : TRUE IN g.n + SumN(S \ {g})

ResultSet(idx, f) == { g \in idx : Matches(g, f) }

TotalCount(idx, f) == SumN(ResultSet(idx, f))

VARIABLES
    index,          \* gateway: the company groups it holds
    failing,        \* gateway: the filter sets it answers with an error
    failure,        \* gateway: the error answer it gives on those
    base_filters,   \* planner: the argument of create_execution_plan
    plan,           \* planner: the plan returned
    calls,          \* planner: the filter sets queried, in order
    ppc             \* planner: "idle" before the call, "built" after

planVars == << index, failing, failure, base_filters, plan, calls, ppc >>

\* services/prospeo_client.py
search_companies(f, page) ==
    IF f \in failing THEN failure
    ELSE [_http_status |-> 200,
          pagination |-> [current_page |-> page,
                          total_count |-> TotalCount(index, f)]]

is_error(response) ==
    Get(response, "error", FALSE) \/ Get(response, "_http_status", 200) >= 400

\* mutant: the error code is never read from the response
get_error_code_unknown(response) == "UNKNOWN_ERROR"

get_error_code(response) == Get(response, "error_code", "UNKNOWN_ERROR")

get_pagination(response) == Get(response, "pagination", [x \in {} |-> 0])

\* ------------------------------------------------------------------------
\* services/query_segmenter.py: QuerySegmenter
\* ------------------------------------------------------------------------

\* mutant: reads the page number instead of the total
estimate_total_count_wrongfield(filters) ==
    LET response == search_companies(filters, 1) IN
    IF is_error(response) THEN << 0, response >>
    ELSE << get_pagination(response).current_page, response >>

\* returns << total_count, response >>
estimate_total_count(filters) ==
    LET response == search_companies(filters, 1) IN
    IF is_error(response) THEN << 0, response >>
    ELSE << get_pagination(response).total_count, response >>

needs_segmentation(total_count) == total_count > MAX_RESULTS_PER_QUERY

\* mutant: rounds down
PagesFor_floor(count) == count \div PER_PAGE

\* mutant: a segment has one page at least
PagesFor_atleastone(count) ==
    IF count = 0 THEN 1 ELSE (count + (PER_PAGE - 1)) \div PER_PAGE

\* (count + 24) // 25
PagesFor(count) == (count + (PER_PAGE - 1)) \div PER_PAGE

\* mutant: the loop stops one country short
CountrySegments_short(filters) ==
    [ i \in 1..(Len(COUNTRIES) - 1) |->
        SetKey(filters, "company_location_search",
               [include |-> {COUNTRIES[i]}, exclude |-> {}]) ]

CountrySegments(filters) ==
    [ i \in 1..Len(COUNTRIES) |->
        SetKey(filters, "company_location_search",
               [include |-> {COUNTRIES[i]}, exclude |-> {}]) ]

RangeSegments(filters) ==
    [ i \in 1..Len(EMPLOYEE_RANGES) |->
        SetKey(filters, "company_headcount_range", {EMPLOYEE_RANGES[i]}) ]

\* mutant: the headcount axis is never used
generate_segments_locationonly(filters, total_count) ==
    IF total_count <= MAX_RESULTS_PER_QUERY THEN << filters >>
    ELSE IF "company_location_search" \notin DOMAIN filters
         THEN CountrySegments(filters)
    ELSE << filters >>

generate_segments(filters, total_count) ==
    IF total_count <= MAX_RESULTS_PER_QUERY THEN << filters >>
    ELSE IF "company_location_search" \notin DOMAIN filters
         THEN CountrySegments(filters)
    ELSE IF "company_headcount_range" \notin DOMAIN filters
         THEN RangeSegments(filters)
    ELSE << filters >>

Detail(filters, count) ==
    [filters |-> filters, estimated_count |-> count, pages |-> PagesFor(count)]

\* the inner loop of create_execution_plan over sub_segments[k..]
RECURSIVE SubSegmentLoop(_, _, _)
SubSegmentLoop(sub_segments, k, acc) ==
    IF k > Len(sub_segments) THEN acc
    ELSE LET sub_filter == sub_segments[k]
             sub_count == estimate_total_count(sub_filter)[1]
             d == Detail(sub_filter, sub_count)
         IN SubSegmentLoop(sub_segments, k + 1,
              [segment_details |-> Append(acc.segment_details, d),
               total_pages |-> acc.total_pages + d.pages,
               total_estimated |-> acc.total_estimated + sub_count,
               calls |-> Append(acc.calls, sub_filter)])

\* the outer loop of create_execution_plan over segments[i..]
RECURSIVE SegmentLoop(_, _, _)
SegmentLoop(segments, i, acc) ==
    IF i > Len(segments) THEN acc
    ELSE LET segment_filters == segments[i]
             count == estimate_total_count(segment_filters)[1]
             queried == [acc EXCEPT !.calls = Append(@, segment_filters)]
             d == Detail(segment_filters, count)
         IN IF count > MAX_RESULTS_PER_QUERY
            THEN SegmentLoop(segments, i + 1,
                   SubSegmentLoop(generate_segments(segment_filters, count),
                                  1, queried))
            ELSE SegmentLoop(segments, i + 1,
                   [segment_details |-> Append(acc.segment_details, d),
                    total_pages |-> acc.total_pages + d.pages,
                    total_estimated |-> acc.total_estimated + count,
                    calls |-> queried.calls])

\* returns the plan together with the gateway queries it took
create_execution_plan(filters) ==
    LET est == estimate_total_count(filters)
        total_count == est[1]
        initial_response == est[2]
    IN IF is_error(initial_response)
       THEN [plan |-> [error |-> TRUE,
                       error_code |-> get_error_code(initial_response),
                       segments |-> << >>,
                       total_estimated |-> 0,
                       credits_estimate |-> 0],
             calls |-> << filters >>]
       ELSE IF ~ needs_segmentation(total_count)
       THEN [plan |-> [error |-> FALSE,
                       segments |-> << Detail(filters, total_count) >>,
                       total_estimated |-> total_count,
                       credits_estimate |-> PagesFor(total_count)],
             calls |-> << filters >>]
       ELSE LET acc == SegmentLoop(generate_segments(filters, total_count), 1,
                         [segment_details |-> << >>, total_pages |-> 0,
                          total_estimated |-> 0, calls |-> << filters >>])
            IN [plan |-> [error |-> FALSE,
                          segments |-> acc.segment_details,
                          total_estimated |-> acc.total_estimated,
                          credits_estimate |-> acc.total_pages],
                calls |-> acc.calls]

\* mutant: the segments are written into the caller's dict, not into copies
base_filters_after_inplace(filters) ==
    LET total_count == estimate_total_count(filters)[1]
        segments == generate_segments(filters, total_count)
    IN segments[Len(segments)]

\* the caller's dict after create_execution_plan(filters): generate_segments
\* writes each segment into a copy, dict(base_filters), so nothing is
\* written into the dict it was given
base_filters_after(filters) == filters

NoPlan == [none |-> TRUE]

\* ------------------------------------------------------------------------
\* services/domain_utils.py.  A URL or domain string is kept in parts: an
\* optional scheme, an optional leading "www.", the host labels and an
\* optional path; NoUrl is the empty string (and None: the code tests both
\* by truthiness).
\* ------------------------------------------------------------------------

NULL == "NULL"

NoUrl == [scheme |-> FALSE, www |-> FALSE, labels |-> << >>, path |-> FALSE]

Url(scheme, www, labels, path) ==
    [scheme |-> scheme, www |-> www, labels |-> labels, path |-> path]

\* the public suffixes tldextract knows, as label sequences
PublicSuffixes == { << "com" >>, << "uk" >>, << "co", "uk" >> }

\* a label that ends with another label's characters ("notacme" / "acme")
LabelSuffixPairs == { << "acme", "notacme" >> }

LabelEndsWith(label, ending) ==
    label = ending \/ << ending, label >> \in LabelSuffixPairs

LastLabels(host, k) == SubSeq(host, Len(host) - k + 1, Len(host))

\* scheme, path and a leading "www." are dropped
hostname_from_url(url) == IF url = NoUrl THEN << >> ELSE url.labels

\* the length of the longest public suffix the host ends with (0: none)
SuffixLen(host) ==
    LET fits == { k \in 1..Len(host) : LastLabels(host, k) \in PublicSuffixes }
    IN IF fits = {} THEN 0 ELSE CHOOSE k \in fits : \A m \in fits : m <= k

\* the registrable root as a label sequence ("acme.co.uk"); << >> is ""
registrable_root_domain(url) ==
    LET host == hostname_from_url(url)
        n == SuffixLen(host)
    IN IF url = NoUrl \/ host = << >> THEN << >>
       ELSE IF n > 0 /\ Len(host) > n THEN LastLabels(host, n + 1)
       ELSE host

\* SQL: column == root
ColumnEquals(stored, root) ==
    /\ stored # NoUrl
    /\ ~ stored.scheme /\ ~ stored.www /\ ~ stored.path
    /\ stored.labels = root

\* SQL: column LIKE '%root'
ColumnLike(stored, root) ==
    /\ stored # NoUrl
    /\ ~ stored.path
    /\ Len(stored.labels) >= Len(root)
    /\ LET tail == LastLabels(stored.labels, Len(root)) IN
         /\ LabelEndsWith(tail[1], root[1])
         /\ \A i \in 2..Len(root) : tail[i] = root[i]

\* ------------------------------------------------------------------------
\* The persisted store (models/database.py) and the sessions on it.
\* A session sees the committed rows and its own flushed, uncommitted work
\* (READ COMMITTED); commit publishes that work, rollback drops it.
\* ------------------------------------------------------------------------

MaxJobs == 2

JobIds == 1..MaxJobs

VARIABLES
    unique_prospeo_id,  \* store: is the unique constraint of the migration on
    jobs,               \* store: the jobs table, jobs[id] is the row of job id
    companies,          \* store: the committed rows of the companies table
    job_refs,           \* store: the committed company_job_references
    next_company_id,    \* store: the id sequence of the companies table
    session,            \* per job: the uncommitted work of its runner
    running_jobs,       \* app.py: the registry of runner handles
    runner,             \* per job: the MarketSizingJob object and its thread
    stop_calls,         \* the stop_job requests between stop() and commit
    stops,              \* number of stop_job requests so far
    faults,             \* number of gateway faults injected so far
    returned,           \* number of companies the gateway has returned so far
    person_counts,      \* store: the rows of the person_counts table
    pc_calls,           \* the calls of the person-count routines so far
    id_calls,           \* the calls of the company lookup and upsert so far
    http_calls,         \* the call of ProspeoClient._post made, if any
    clock,              \* time.time(), in tenths of a second
    hubspot_client,     \* a HubSpotClient object
    hs_sent,            \* the send times of the HubSpot requests so far
    hs_last,            \* the last call of a HubSpotClient search method
    quick_runs,         \* the call of run_quick_tam_job made, if any
    ptime,              \* time.time(), in sixtieths of a second
    prospeo_client,     \* a ProspeoClient object
    posting,            \* per thread: where it is in _post
    prospeo_sent        \* the requests of the ProspeoClient sent so far

jobVars ==
    << unique_prospeo_id, jobs, companies, job_refs, next_company_id,
       session, running_jobs, runner, stop_calls, stops, faults, returned >>

hubspotVars == << clock, hubspot_client, hs_sent, hs_last >>

limiterVars == << ptime, prospeo_client, posting, prospeo_sent >>

countVars == << person_counts, pc_calls, id_calls, http_calls, hubspotVars,
               quick_runs, limiterVars >>

vars == << index, failing, failure, base_filters, plan, calls, ppc,
           unique_prospeo_id, jobs, companies, job_refs, next_company_id,
           session, running_jobs, runner, stop_calls, stops, faults, returned,
           person_counts, pc_calls, id_calls, http_calls,
           clock, hubspot_client, hs_sent, hs_last, quick_runs,
           ptime, prospeo_client, posting, prospeo_sent >>

\* no HubSpotClient has been built
HubSpotUnused ==
    /\ clock = 0
    /\ hubspot_client = NULL
    /\ hs_sent = << >>
    /\ hs_last = NULL

\* no ProspeoClient is followed request by request
LimiterUnused ==
    /\ ptime = 0
    /\ prospeo_client = NULL
    /\ posting = << >>
    /\ prospeo_sent = << >>

EmptyDict == [x \in {} |-> NULL]

CleanSession ==
    [failed |-> FALSE, companies |-> {}, refs |-> {}, job |-> EmptyDict]

\* the rows of the companies table as the session of job j sees them
View(j) ==
    LET mine == session[j].companies
        ids == { r.id : r \in mine }
    IN { r \in companies : r.id \notin ids } \cup mine

RefsView(j) == job_refs \cup session[j].refs

\* d1 updated by the keys of d2
Merge(d1, d2) ==
    [k \in DOMAIN d1 \cup DOMAIN d2 |-> IF k \in DOMAIN d2 THEN d2[k] ELSE d1[k]]

\* the jobs table after UPDATE jobs SET cols WHERE id = j
UpdateJob(j, cols) == [jobs EXCEPT ![j] = Merge(@, cols)]

\* a or b
Or(a, b) == IF a # NULL THEN a ELSE b

OrUrl(a, b) == IF a # NoUrl THEN a ELSE b

\* a number or a flag that may be None: << >> is None, << v >> is v
None == << >>

Some(v) == << v >>

\* a or b for numbers: None and 0 are false
OrInt(a, b) == IF a # None /\ a[1] # 0 THEN a ELSE b

\* a if a is not None else b
IfNotNone(a, b) == IF a # None THEN a ELSE b

\* ------------------------------------------------------------------------
\* jobs/market_sizing_job.py: identity resolution and upsert
\* ------------------------------------------------------------------------

NewCompany(id, job_id, prospeo_id) ==
    [id |-> id, job_id |-> job_id, prospeo_company_id |-> prospeo_id,
     name |-> NULL, domain |-> NoUrl, website |-> NoUrl,
     employee_count |-> None, is_b2b |-> None]

\* _update_company_fields: "incoming or stored" for the text and number
\* fields, "incoming if incoming is not None else stored" for the flags of
\* the attributes object
update_company_fields(company, data) ==
    [company EXCEPT !.name = Or(data.name, company.name),
                    !.website = OrUrl(data.website, company.website),
                    !.domain = OrUrl(data.domain, company.domain),
                    !.employee_count = OrInt(data.employee_count,
                                             company.employee_count),
                    !.is_b2b = IfNotNone(data.is_b2b, company.is_b2b)]

MatchById(rows, data) ==
    IF data.company_id = NULL THEN {}
    ELSE { r \in rows : r.prospeo_company_id = data.company_id }

MatchByDomain(rows, data) ==
    LET domain == OrUrl(data.domain, data.website)
        root_domain == registrable_root_domain(domain)
    IN IF domain = NoUrl \/ root_domain = << >> THEN {}
       ELSE { r \in rows :
                \/ ColumnEquals(r.domain, root_domain)
                \/ ColumnEquals(r.website, root_domain)
                \/ ColumnLike(r.domain, root_domain)
                \/ ColumnLike(r.website, root_domain) }

MatchByName(rows, data) ==
    IF data.name = NULL \/ ~ (Len(data.name) > 3) THEN {}
    ELSE { r \in rows : r.name = data.name }

find_existing_company_globally_namefirst(rows, data) ==
    IF MatchById(rows, data) # {} THEN MatchById(rows, data)
    ELSE IF MatchByName(rows, data) # {} THEN MatchByName(rows, data)
    ELSE MatchByDomain(rows, data)

\* _find_existing_company_globally: the rows .first() can return ({}: None)
find_existing_company_globally(rows, data) ==
    IF MatchById(rows, data) # {} THEN MatchById(rows, data)
    ELSE IF MatchByDomain(rows, data) # {} THEN MatchByDomain(rows, data)
    ELSE MatchByName(rows, data)

\* _save_company: the rows the job-scoped lookup can return
SaveLookup(rows, job_id, data) ==
    IF data.company_id = NULL THEN {}
    ELSE { r \in rows : r.job_id = job_id
                        /\ r.prospeo_company_id = data.company_id }

\* ------------------------------------------------------------------------
\* The inputs of the job model
\* ------------------------------------------------------------------------

\* rows of one result page the gateway returns to a job
MaxPageLen == 1

\* gateway faults (a raised network error, an error answer to a page fetch)
MaxFaults == 1

\* stop_job requests
MaxStops == 1

\* companies the gateway returns over all the page fetches of all jobs
MaxCompanies == 2

AcmeCom == Url(FALSE, FALSE, << "acme", "com" >>, FALSE)

AcmeWww == Url(TRUE, TRUE, << "acme", "com" >>, FALSE)

\* the company payloads of result pages: the same stable identifier under
\* two names, and a payload without identifier
Payloads ==
    { [company_id |-> "X", name |-> "Acme", domain |-> AcmeCom,
       website |-> NoUrl, employee_count |-> None, is_b2b |-> None],
      [company_id |-> "X", name |-> "Acme Ltd", domain |-> NoUrl,
       website |-> NoUrl, employee_count |-> None, is_b2b |-> None],
      [company_id |-> NULL, name |-> "Acme", domain |-> NoUrl,
       website |-> AcmeWww, employee_count |-> None, is_b2b |-> None] }

ResultPages == UNION { [1..n -> Payloads] : n \in 0..MaxPageLen }

Group(country, n) ==
    [country |-> country, headcount |-> "1-10", industry |-> "Software",
     n |-> n]

\* the indexes jobs run against: small enough for their plans to be walked
JobIndexes ==
    { {},
      { Group("United States", 1), Group("United Kingdom", 1),
        Group("Germany", MAX_RESULTS_PER_QUERY) } }

NoFilters == [x \in {} |-> NULL]

JobFilterSets == { NoFilters }

\* job.person_filters: the names of the person sub-queries
PersonFilterLists == { << >>, << "SDRs" >> }

\* the jobs submitted: detailed jobs that reuse or renew stored data,
\* a detailed job with a person sub-query, a quick_tam job
JobConfigs ==
    { [mode |-> "detailed", company_filters |-> NoFilters,
       person_filters |-> << >>, skip_existing_companies |-> TRUE,
       skip_existing_hubspot |-> TRUE],
      [mode |-> "detailed", company_filters |-> NoFilters,
       person_filters |-> << >>, skip_existing_companies |-> FALSE,
       skip_existing_hubspot |-> FALSE],
      [mode |-> "detailed", company_filters |-> NoFilters,
       person_filters |-> << "SDRs" >>, skip_existing_companies |-> TRUE,
       skip_existing_hubspot |-> TRUE],
      [mode |-> "quick_tam", company_filters |-> NoFilters,
       person_filters |-> << "SDRs" >>, skip_existing_companies |-> TRUE,
       skip_existing_hubspot |-> TRUE] }

\* ------------------------------------------------------------------------
\* jobs/market_sizing_job.py: MarketSizingJob, and the job routes of app.py
\* ------------------------------------------------------------------------

IdleRunner ==
    [pc |-> "none", _stop_requested |-> FALSE,
     plan |-> NoPlan, segment_idx |-> 0, page |-> 0,
     companies_data |-> << >>, credits_used |-> 0,
     companies_processed |-> 0, companies_skipped |-> 0, exc |-> NULL,
     stop_seen |-> << >>, enrichment |-> "none"]

\* Search Suggestions: the COUNTRY name the gateway suggests for a location
resolve_location_format(location_name) ==
    IF location_name \in {"USA", "US"} THEN "United States" ELSE location_name

\* _prepare_company_search_filters
prepare_company_search_filters(company_filters) ==
    IF "company_location_search" \notin DOMAIN company_filters
    THEN company_filters
    ELSE [company_filters EXCEPT !.company_location_search =
            [include |-> { resolve_location_format(l) : l \in @.include },
             exclude |-> { resolve_location_format(l) : l \in @.exclude }]]

\* db.session.commit() of the runner of job j, with cols set on its job row
CommitSession(j, cols) ==
    /\ companies' = View(j)
    /\ job_refs' = RefsView(j)
    /\ jobs' = UpdateJob(j, Merge(session[j].job, cols))
    /\ session' = [session EXCEPT ![j] = CleanSession]

\* app.py create_job: the job row is committed as pending; a quick_tam job
\* then runs inside the request, any other job on a thread of its own, whose
\* handle is put in the registry
CreateJob(mode, company_filters, person_filters, skip, skip_hubspot) ==
    /\ Len(jobs) < MaxJobs
    /\ jobs' = Append(jobs,
         [status |-> "pending", mode |-> mode,
          company_filters |-> company_filters,
          person_filters |-> person_filters,
          skip_existing_companies |-> skip,
          skip_existing_hubspot |-> skip_hubspot,
          error_message |-> NULL, total_companies |-> 0,
          estimated_credits |-> 0, processed_companies |-> 0,
          companies_skipped |-> 0, actual_credits |-> 0])
    /\ runner' = [runner EXCEPT ![Len(jobs) + 1] =
         [@ EXCEPT !.pc = IF mode = "quick_tam" THEN "qt_start" ELSE "start"]]
    /\ running_jobs' = IF mode = "quick_tam" THEN running_jobs
                       ELSE running_jobs \cup {Len(jobs) + 1}
    /\ UNCHANGED << unique_prospeo_id, companies, job_refs, next_company_id,
                    session, stop_calls, stops, faults, returned >>
    /\ UNCHANGED planVars
    /\ UNCHANGED countVars

\* run(): the job is loaded, set to running and committed
RunnerStart(j) ==
    /\ runner[j].pc = "start"
    /\ jobs' = UpdateJob(j, [status |-> "running"])
    /\ runner' = [runner EXCEPT ![j].pc = "plan"]
    /\ UNCHANGED << unique_prospeo_id, companies, job_refs, next_company_id,
                    session, running_jobs, stop_calls, stops, faults, returned >>
    /\ UNCHANGED planVars
    /\ UNCHANGED countVars

\* the heads of the segment loop and of the page loop, from (seg, page) on:
\* the next page to fetch, << 0, 0 >> when the loops are over.  A stop
\* request breaks both loops.  (segments and pages count from 1)
RECURSIVE NextPageFrom_shortrange(_, _, _, _)
NextPageFrom_shortrange(segments, seg, page, stop_requested) ==
    IF seg > Len(segments) \/ stop_requested THEN << 0, 0 >>
    ELSE IF page > segments[seg].pages - 1
         THEN NextPageFrom_shortrange(segments, seg + 1, 1, stop_requested)
         ELSE << seg, page >>

RECURSIVE NextPageFrom(_, _, _, _)
NextPageFrom(segments, seg, page, stop_requested) ==
    IF seg > Len(segments) \/ stop_requested THEN << 0, 0 >>
    ELSE IF page > segments[seg].pages
         THEN NextPageFrom(segments, seg + 1, 1, stop_requested)
         ELSE << seg, page >>

\* where the runner r goes on at the head of the page loop: out of the
\* loops when it saw the stop request or no page is left
LoopHead(r) ==
    IF r._stop_requested
       \/ NextPageFrom(r.plan.segments, r.segment_idx, r.page, FALSE) = << 0, 0 >>
    THEN "finish" ELSE "page"

\* _execute up to the segment loop: the plan is built (a gateway request of
\* it may raise); a plan error is recorded as the error message and _execute
\* returns; otherwise the totals are committed
RunnerPlan(j) ==
    /\ runner[j].pc = "plan"
    /\ LET p == create_execution_plan(
                  prepare_company_search_filters(jobs[j].company_filters)).plan
       IN \/ /\ faults < MaxFaults
             /\ faults' = faults + 1
             /\ runner' = [runner EXCEPT ![j].pc = "except",
                                         ![j].exc = "ConnectionError"]
             /\ UNCHANGED << jobs, companies, job_refs, session >>
          \/ /\ p.error
             /\ session' = [session EXCEPT ![j].job =
                  Merge(@, [error_message |->
                              "Segmentation failed: " \o p.error_code])]
             /\ runner' = [runner EXCEPT ![j].pc = "finish", ![j].plan = p]
             /\ UNCHANGED << jobs, companies, job_refs, faults, returned >>
          \/ /\ ~ p.error
             /\ CommitSession(j, [total_companies |-> p.total_estimated,
                                  estimated_credits |-> p.credits_estimate])
             /\ runner' = [runner EXCEPT ![j] =
                  LET r == [@ EXCEPT !.plan = p, !.segment_idx = 1, !.page = 1]
                  IN [r EXCEPT !.pc = LoopHead(r)]]
             /\ UNCHANGED faults
    /\ UNCHANGED << unique_prospeo_id, next_company_id, running_jobs,
                    stop_calls, stops, returned >>
    /\ UNCHANGED planVars
    /\ UNCHANGED countVars

\* one turn of the page loop: the stop checks of the loop heads, then
\* search_companies(segment_filters, page): the request raises, or answers
\* with an error (the page is skipped), or returns a page of companies.
\* When the loops are over the enrichment of a detailed job runs; its
\* failures are caught and logged, and _execute returns
RunnerPageOf(j, result_pages, max_companies) ==
    /\ runner[j].pc = "page"
    /\ LET r == runner[j]
           next == NextPageFrom(r.plan.segments, r.segment_idx, r.page,
                                r._stop_requested)
           at == [r EXCEPT !.segment_idx = next[1], !.page = next[2]]
       IN IF next = << 0, 0 >>
          THEN /\ runner' = [runner EXCEPT ![j].pc = "finish"]
               /\ UNCHANGED << faults, returned >>
          ELSE \/ /\ faults < MaxFaults
                  /\ faults' = faults + 1
                  /\ runner' = [runner EXCEPT ![j] =
                       [at EXCEPT !.pc = "except", !.exc = "ConnectionError"]]
                  /\ UNCHANGED returned
               \/ /\ faults < MaxFaults
                  /\ faults' = faults + 1
                  /\ runner' = [runner EXCEPT ![j] =
                       LET skipped == [at EXCEPT !.page = @ + 1,
                                                 !.credits_used = @ + 1]
                       IN [skipped EXCEPT !.pc = LoopHead(skipped)]]
                  /\ UNCHANGED returned
               \/ /\ \E data \in result_pages :
                       /\ returned + Len(data) <= max_companies
                       /\ returned' = returned + Len(data)
                       /\ runner' = [runner EXCEPT ![j] =
                            [at EXCEPT !.pc = "company",
                                       !.companies_data = data,
                                       !.credits_used = @ + 1]]
                  /\ UNCHANGED faults
    /\ UNCHANGED << unique_prospeo_id, jobs, companies, job_refs,
                    next_company_id, session, running_jobs, stop_calls,
                    stops >>
    /\ UNCHANGED planVars
    /\ UNCHANGED countVars

\* the page loop against the result pages of the job model
RunnerPage(j) == RunnerPageOf(j, ResultPages, MaxCompanies)

\* the rows of company_job_references, as the session of job j sees them,
\* that link the company to the job.  A row is << company_id, job_id, n >>,
\* n telling the rows of one pair apart
RefsOf(j, company) ==
    { ref \in RefsView(j) : ref[1] = company.id /\ ref[2] = j }

\* the reference is added without looking for an existing one
LinkExisting_unchecked(j, company) ==
    session[j].refs
        \cup { << company.id, j, Cardinality(RefsOf(j, company)) + 1 >> }

\* _link_existing_company_to_job
LinkExisting(j, company) ==
    IF RefsOf(j, company) # {} THEN session[j].refs
    ELSE session[j].refs
            \cup { << company.id, j, Cardinality(RefsOf(j, company)) + 1 >> }

\* the company loop without its stop check
RunnerCompany_nostopcheck(j) ==
    /\ runner[j].pc = "company"
    /\ LET r == runner[j]
           data == Head(r.companies_data)
           found == find_existing_company_globally(View(j), data)
       IN IF r.companies_data = << >>
          THEN /\ CommitSession(j, EmptyDict)
               /\ runner' = [runner EXCEPT ![j] =
                    LET paged == [r EXCEPT !.page = @ + 1,
                                           !.companies_data = << >>]
                    IN [paged EXCEPT !.pc = LoopHead(paged)]]
          ELSE IF jobs[j].skip_existing_companies /\ found # {}
          THEN /\ \E existing \in found :
                    session' = [session EXCEPT ![j].refs =
                                  LinkExisting(j, existing)]
               /\ runner' = [runner EXCEPT
                    ![j].companies_skipped = @ + 1,
                    ![j].companies_data = Tail(@)]
               /\ UNCHANGED << jobs, companies, job_refs >>
          ELSE /\ runner' = [runner EXCEPT ![j].pc = "save"]
               /\ UNCHANGED << jobs, companies, job_refs, session >>
    /\ UNCHANGED << unique_prospeo_id, next_company_id, running_jobs,
                    stop_calls, stops, faults, returned >>
    /\ UNCHANGED planVars
    /\ UNCHANGED countVars

\* one turn of the company loop: the stop check; at the end of the page (or
\* on a stop request) the commit that ends the page; otherwise the lookup of
\* the company among the stored ones when the job skips existing companies
RunnerCompany(j) ==
    /\ runner[j].pc = "company"
    /\ LET r == runner[j]
           data == Head(r.companies_data)
           found == find_existing_company_globally(View(j), data)
       IN IF r.companies_data = << >> \/ r._stop_requested
          THEN /\ CommitSession(j, EmptyDict)
               /\ runner' = [runner EXCEPT ![j] =
                    LET paged == [r EXCEPT !.page = @ + 1,
                                           !.companies_data = << >>]
                    IN [paged EXCEPT !.pc = LoopHead(paged)]]
          ELSE IF jobs[j].skip_existing_companies /\ found # {}
          THEN /\ \E existing \in found :
                    session' = [session EXCEPT ![j].refs =
                                  LinkExisting(j, existing)]
               /\ runner' = [runner EXCEPT
                    ![j].companies_skipped = @ + 1,
                    ![j].companies_data = Tail(@)]
               /\ UNCHANGED << jobs, companies, job_refs >>
          ELSE /\ runner' = [runner EXCEPT ![j].pc = "save"]
               /\ UNCHANGED << jobs, companies, job_refs, session >>
    /\ UNCHANGED << unique_prospeo_id, next_company_id, running_jobs,
                    stop_calls, stops, faults, returned >>
    /\ UNCHANGED planVars
    /\ UNCHANGED countVars

\* can the INSERT of a row with this stable identifier proceed: with the
\* unique constraint on, it waits for a transaction that holds the same
\* identifier uncommitted
InsertWaits(j, prospeo_id) ==
    /\ unique_prospeo_id
    /\ prospeo_id # NULL
    /\ \E k \in JobIds \ {j} :
         \E r \in session[k].companies :
            /\ r.prospeo_company_id = prospeo_id
            /\ r.id \notin { c.id : c \in companies }

InsertConflicts(j, prospeo_id) ==
    /\ unique_prospeo_id
    /\ prospeo_id # NULL
    /\ \E r \in View(j) : r.prospeo_company_id = prospeo_id

\* the counters written to the job row after a processed company
Counters(r) ==
    [processed_companies |-> r.companies_processed,
     companies_skipped |-> r.companies_skipped,
     actual_credits |-> r.credits_used]

\* the rest of the loop body after _save_company returned: the person
\* counts (PersonCount has no is_active column in models/database.py, so
\* the first person count raises AttributeError), the counters, and a commit
\* every 10 processed companies
AfterSave(j, saved) ==
    IF jobs[j].person_filters # << >>
    THEN /\ session' = [session EXCEPT ![j].companies = saved]
         /\ runner' = [runner EXCEPT ![j].pc = "except",
                                     ![j].exc = "AttributeError"]
         /\ UNCHANGED << jobs, companies, job_refs >>
    ELSE LET r == [runner[j] EXCEPT !.companies_processed = @ + 1,
                                    !.companies_data = Tail(@),
                                    !.pc = "company"]
         IN /\ runner' = [runner EXCEPT ![j] = r]
            /\ IF r.companies_processed % 10 = 0
               THEN /\ companies' =
                         { c \in companies : c.id \notin { x.id : x \in saved } }
                         \cup saved
                    /\ job_refs' = RefsView(j)
                    /\ jobs' = UpdateJob(j, Merge(session[j].job, Counters(r)))
                    /\ session' = [session EXCEPT ![j] = CleanSession]
               ELSE /\ session' = [session EXCEPT
                         ![j].companies = saved,
                         ![j].job = Merge(@, Counters(r))]
                    /\ UNCHANGED << jobs, companies, job_refs >>

\* _save_company and the rest of the loop body: the company is looked up by
\* (job_id, prospeo_company_id); a row found is updated in place, otherwise
\* a row is inserted and flushed
RunnerSave(j) ==
    /\ runner[j].pc = "save"
    /\ LET data == Head(runner[j].companies_data)
           found == SaveLookup(View(j), j, data)
           mine == session[j].companies
       IN IF found # {}
          THEN /\ \E existing \in found :
                    AfterSave(j, { c \in mine : c.id # existing.id }
                                 \cup { update_company_fields(existing, data) })
               /\ UNCHANGED next_company_id
          ELSE /\ ~ InsertWaits(j, data.company_id)
               /\ next_company_id' = next_company_id + 1
               /\ IF InsertConflicts(j, data.company_id)
                  THEN /\ session' = [session EXCEPT ![j] =
                            [CleanSession EXCEPT !.failed = TRUE]]
                       /\ runner' = [runner EXCEPT
                            ![j].pc = "except", ![j].exc = "IntegrityError"]
                       /\ UNCHANGED << jobs, companies, job_refs >>
                  ELSE AfterSave(j, mine \cup
                         { update_company_fields(
                             NewCompany(next_company_id, j, data.company_id),
                             data) })
    /\ UNCHANGED << unique_prospeo_id, running_jobs, stop_calls, stops,
                    faults, returned >>
    /\ UNCHANGED planVars
    /\ UNCHANGED countVars

\* the inputs of the enrichment: whether HubSpotClient() can be built, whether it has an API key, and what
\* batch_enrich_companies does (raises, returns records, returns none)
EnrichmentInput(init_ok, enabled, answer) ==
    [init_ok |-> init_ok, enabled |-> enabled, answer |-> answer]

EnrichmentInputs ==
    { EnrichmentInput(FALSE, TRUE, "none"),
      EnrichmentInput(TRUE, FALSE, "none"),
      EnrichmentInput(TRUE, TRUE, "raise"),
      EnrichmentInput(TRUE, TRUE, "data"),
      EnrichmentInput(TRUE, TRUE, "none") }

\* _enrich_companies_with_hubspot on the companies of the job: the failure
\* its handlers caught and logged (NULL: none) and the exception it leaves
\* with.  HubSpotEnrichment has no is_active column in models/database.py,
\* so the lookup of an existing enrichment and the save of a new one raise
\* AttributeError
enrich_companies_with_hubspot(skip_existing_hubspot, all_companies, in) ==
    [raised |-> NULL,
     caught |->
        IF ~ in.init_ok THEN "client_init"
        ELSE IF all_companies = {} THEN NULL
        ELSE IF skip_existing_hubspot THEN "AttributeError"
        ELSE IF ~ in.enabled THEN NULL
        ELSE IF in.answer = "raise" THEN "ConnectionError"
        ELSE IF in.answer = "data" THEN "AttributeError"
        ELSE NULL]

run_enrichment_uncaught(job, all_companies, in) ==
    LET r == enrich_companies_with_hubspot(job.skip_existing_hubspot,
                                           all_companies, in)
    IN IF job.mode # "detailed"
       THEN [raised |-> NULL, enrichment |-> "none", caught |-> NULL]
       ELSE [raised |-> r.caught, caught |-> r.caught,
             enrichment |-> IF r.caught # NULL THEN "failed" ELSE "ok"]

\* the end of _execute: the enrichment of a detailed job inside its
\* try/except, which logs whatever the enrichment raises
run_enrichment(job, all_companies, in) ==
    LET r == enrich_companies_with_hubspot(job.skip_existing_hubspot,
                                           all_companies, in)
    IN IF job.mode # "detailed"
       THEN [raised |-> NULL, enrichment |-> "none", caught |-> NULL]
       ELSE [raised |-> NULL, caught |-> r.caught,
             enrichment |-> IF r.caught # NULL \/ r.raised # NULL
                            THEN "failed" ELSE "ok"]

\* the end of _execute and of run(): unless the plan had an error the
\* enrichment runs (a client that cannot be built and a request that raises
\* are gateway faults); _execute returned, the job is set to completed and
\* committed
RunnerFinish(j) ==
    /\ runner[j].pc = "finish"
    /\ \E in \in EnrichmentInputs :
         LET r == IF runner[j].plan.error
                  THEN [raised |-> NULL, enrichment |-> "none",
                        caught |-> NULL]
                  ELSE run_enrichment(jobs[j],
                         { c \in View(j) : c.job_id = j }, in)
             fault == r.caught \in { "client_init", "ConnectionError" }
         IN /\ fault => faults < MaxFaults
            /\ faults' = IF fault THEN faults + 1 ELSE faults
            /\ IF r.raised # NULL
               THEN /\ runner' = [runner EXCEPT
                         ![j].pc = "except", ![j].exc = r.raised,
                         ![j].enrichment = r.enrichment]
                    /\ UNCHANGED << jobs, companies, job_refs, session >>
               ELSE /\ CommitSession(j, [status |-> "completed"])
                    /\ runner' = [runner EXCEPT
                         ![j].pc = "done", ![j].enrichment = r.enrichment]
    /\ UNCHANGED << unique_prospeo_id, next_company_id, running_jobs,
                    stop_calls, stops, returned >>
    /\ UNCHANGED planVars
    /\ UNCHANGED countVars

\* run(): _execute raised; the job is set to failed with the message and
\* committed.  After a failed flush the session refuses the commit
\* (PendingRollbackError), which the outer handler logs: nothing is written
RunnerExcept(j) ==
    /\ runner[j].pc = "except"
    /\ IF session[j].failed
       THEN /\ session' = [session EXCEPT ![j] = CleanSession]
            /\ UNCHANGED << jobs, companies, job_refs >>
       ELSE CommitSession(j, [status |-> "failed",
                              error_message |-> runner[j].exc])
    /\ runner' = [runner EXCEPT ![j].pc = "done"]
    /\ UNCHANGED << unique_prospeo_id, next_company_id, running_jobs,
                    stop_calls, stops, faults, returned >>
    /\ UNCHANGED planVars
    /\ UNCHANGED countVars

\* app.py stop_job, first half: stop() on the registered handle, which is
\* then dropped from the registry
StopRequest(j) ==
    /\ j \in 1..Len(jobs)
    /\ j \notin stop_calls
    /\ stops < MaxStops
    /\ stops' = stops + 1
    /\ stop_calls' = stop_calls \cup {j}
    /\ IF j \in running_jobs
       THEN /\ runner' = [runner EXCEPT
                 ![j]._stop_requested = TRUE,
                 ![j].stop_seen =
                    IF @ # << >> THEN @
                    ELSE << [pc |-> runner[j].pc,
                             segment_idx |-> runner[j].segment_idx,
                             credits_used |-> runner[j].credits_used] >>]
            /\ running_jobs' = running_jobs \ {j}
       ELSE UNCHANGED << runner, running_jobs >>
    /\ UNCHANGED << unique_prospeo_id, jobs, companies, job_refs,
                    next_company_id, session, faults, returned >>
    /\ UNCHANGED planVars
    /\ UNCHANGED countVars

\* app.py stop_job, second half: the status is set to stopped and committed
StopCommit(j) ==
    /\ j \in stop_calls
    /\ stop_calls' = stop_calls \ {j}
    /\ jobs' = UpdateJob(j, [status |-> "stopped"])
    /\ UNCHANGED << unique_prospeo_id, companies, job_refs, next_company_id,
                    session, running_jobs, runner, stops, faults, returned >>
    /\ UNCHANGED planVars
    /\ UNCHANGED countVars

\* app.py run_quick_tam_job: the job is set to running and committed
QuickStart(j) ==
    /\ runner[j].pc = "qt_start"
    /\ jobs' = UpdateJob(j, [status |-> "running"])
    /\ runner' = [runner EXCEPT ![j].pc = "qt_run"]
    /\ UNCHANGED << unique_prospeo_id, companies, job_refs, next_company_id,
                    session, running_jobs, stop_calls, stops, faults, returned >>
    /\ UNCHANGED planVars
    /\ UNCHANGED countVars

\* app.py run_quick_tam_job: one company search, one person search per
\* named sub-query, and the final status; a search that raises, the company
\* search or a person search, leaves the job failed
QuickRun(j) ==
    /\ runner[j].pc = "qt_run"
    /\ LET response == search_companies(jobs[j].company_filters, 1) IN
         \/ /\ faults < MaxFaults
            /\ faults' = faults + 1
            /\ jobs' = UpdateJob(j, [status |-> "failed",
                                     error_message |-> "ConnectionError"])
            /\ runner' = [runner EXCEPT ![j].pc = "done",
                                        ![j].exc = "ConnectionError"]
         \/ /\ faults < MaxFaults
            /\ ~ is_error(response)
            /\ jobs[j].person_filters # << >>
            /\ faults' = faults + 1
            /\ jobs' = UpdateJob(j,
                 [status |-> "failed", error_message |-> "ConnectionError",
                  total_companies |-> get_pagination(response).total_count])
            /\ runner' = [runner EXCEPT ![j].pc = "done",
                                        ![j].exc = "ConnectionError"]
         \/ /\ is_error(response)
            /\ jobs' = UpdateJob(j,
                 [status |-> "failed",
                  error_message |-> "Company search failed: "
                                      \o get_error_code(response)])
            /\ runner' = [runner EXCEPT ![j].pc = "done"]
            /\ UNCHANGED faults
         \/ /\ ~ is_error(response)
            /\ jobs' = UpdateJob(j,
                 [status |-> "completed",
                  total_companies |-> get_pagination(response).total_count,
                  actual_credits |-> 1 + Len(jobs[j].person_filters)])
            /\ runner' = [runner EXCEPT
                 ![j].pc = "done",
                 ![j].credits_used = 1 + Len(jobs[j].person_filters)]
            /\ UNCHANGED faults
    /\ UNCHANGED << unique_prospeo_id, companies, job_refs, next_company_id,
                    session, running_jobs, stop_calls, stops, returned >>
    /\ UNCHANGED planVars
    /\ UNCHANGED countVars

\* ------------------------------------------------------------------------
\* The jobs: creation, runners, stop requests, over one store and gateway
\* ------------------------------------------------------------------------

PlannerUnused ==
    /\ base_filters = NoFilters
    /\ plan = NoPlan
    /\ calls = << >>
    /\ ppc = "unused"

Init ==
    /\ HubSpotUnused
    /\ index \in JobIndexes
    /\ failing \in { {}, {NoFilters} }
    /\ (failing = {}) = (index # {})
    /\ failure = [error |-> TRUE, error_code |-> "INVALID_FILTERS",
                  _http_status |-> 400]
    /\ PlannerUnused
    /\ unique_prospeo_id \in BOOLEAN
    /\ jobs = << >>
    /\ companies = {}
    /\ job_refs = {}
    /\ next_company_id = 1
    /\ session = [j \in JobIds |-> CleanSession]
    /\ running_jobs = {}
    /\ runner = [j \in JobIds |-> IdleRunner]
    /\ stop_calls = {}
    /\ stops = 0
    /\ faults = 0
    /\ returned = 0
    /\ person_counts = {}
    /\ pc_calls = << >>
    /\ id_calls = << >>
    /\ http_calls = << >>
    /\ quick_runs = << >>
    /\ LimiterUnused

Next ==
    \/ \E c \in JobConfigs :
         CreateJob(c.mode, c.company_filters, c.person_filters,
                   c.skip_existing_companies, c.skip_existing_hubspot)
    \/ \E j \in JobIds : RunnerStart(j)
    \/ \E j \in JobIds : RunnerPlan(j)
    \/ \E j \in JobIds : RunnerPage(j)
    \/ \E j \in JobIds : RunnerCompany(j)
    \/ \E j \in JobIds : RunnerSave(j)
    \/ \E j \in JobIds : RunnerFinish(j)
    \/ \E j \in JobIds : RunnerExcept(j)
    \/ \E j \in JobIds : StopRequest(j)
    \/ \E j \in JobIds : StopCommit(j)
    \/ \E j \in JobIds : QuickStart(j)
    \/ \E j \in JobIds : QuickRun(j)

Spec == Init /\ [][Next]_vars

\* ------------------------------------------------------------------------
\* The planner on its own: one call of create_execution_plan on arbitrary
\* base filters, against an arbitrary stable gateway.
\* ------------------------------------------------------------------------

US == [include |-> {"United States"}, exclude |-> {}]

\* the queries on which the gateway may answer with an error: the base
\* query, a first-level segment, a second-level segment
FailingChoices(base) ==
    { {},
      {base},
      {SetKey(base, "company_location_search", US)},
      {SetKey(base, "company_headcount_range", {"1-10"})},
      {SetKey(SetKey(base, "company_location_search", US),
              "company_headcount_range", {"1-10"})} }

JobsUnused ==
    /\ unique_prospeo_id = FALSE
    /\ jobs = << >>
    /\ companies = {}
    /\ job_refs = {}
    /\ next_company_id = 1
    /\ session = [j \in JobIds |-> CleanSession]
    /\ running_jobs = {}
    /\ runner = [j \in JobIds |-> IdleRunner]
    /\ stop_calls = {}
    /\ stops = 0
    /\ faults = 0
    /\ returned = 0
    /\ person_counts = {}
    /\ pc_calls = << >>
    /\ id_calls = << >>
    /\ http_calls = << >>
    /\ quick_runs = << >>
    /\ LimiterUnused

PlanInit ==
    /\ HubSpotUnused
    /\ JobsUnused
    /\ index \in Indexes
    /\ base_filters \in BaseFilterSets
    /\ failing \in FailingChoices(base_filters)
    /\ failure \in ErrorResponses
    /\ (failing = {} => failure = [_http_status |-> 500])
    /\ plan = NoPlan
    /\ calls = << >>
    /\ ppc = "idle"

BuildPlan ==
    /\ ppc = "idle"
    /\ LET r == create_execution_plan(base_filters) IN
         /\ plan' = r.plan
         /\ calls' = r.calls
    /\ base_filters' = base_filters_after(base_filters)
    /\ ppc' = "built"
    /\ UNCHANGED << index, failing, failure >>
    /\ UNCHANGED jobVars
    /\ UNCHANGED countVars

\* a second call of create_execution_plan with the dict the first call was
\* given, against the same gateway
BuildPlanAgain ==
    /\ ppc = "built"
    /\ LET r == create_execution_plan(base_filters) IN
         /\ plan' = r.plan
         /\ calls' = calls \o r.calls
    /\ base_filters' = base_filters_after(base_filters)
    /\ ppc' = "rebuilt"
    /\ UNCHANGED << index, failing, failure >>
    /\ UNCHANGED jobVars
    /\ UNCHANGED countVars

PlanNext == BuildPlan \/ BuildPlanAgain

SpecPlan == PlanInit /\ [][PlanNext]_vars

\* ------------------------------------------------------------------------
\* jobs/market_sizing_job.py: the person-count routines on their own, called
\* on arbitrary stored companies, against an arbitrary person_counts table.
\* models/database.py declares no is_active attribute on PersonCount, so
\* every evaluation of PersonCount.is_active raises AttributeError.
\* ------------------------------------------------------------------------

\* calls of the person-count routines
MaxCalls == 2

QueryNames == { "SDRs", "AEs" }

\* the results of _execute_person_search
CountResults ==
    { [total_count |-> 0, status |-> "ok", error_code |-> NULL],
      [total_count |-> 5, status |-> "ok", error_code |-> NULL],
      [total_count |-> 0, status |-> "error", error_code |-> "INVALID_FILTERS"] }

NO_DOMAIN_RESULT ==
    [total_count |-> 0, status |-> "error", error_code |-> "NO_DOMAIN_AVAILABLE"]

AcmePage == Url(TRUE, TRUE, << "acme", "com" >>, TRUE)

\* no result: nothing was passed to _save_person_count_result
NoResult == [total_count |-> 0, status |-> NULL, error_code |-> NULL]

\* stored companies: with identifier and domain; with a website only; with
\* neither; with a website that carries a path
CountCompanies ==
    { [id |-> 1, job_id |-> 1, prospeo_company_id |-> "X", name |-> "Acme",
       domain |-> AcmeCom, website |-> NoUrl,
       employee_count |-> None, is_b2b |-> None],
      [id |-> 2, job_id |-> 1, prospeo_company_id |-> NULL, name |-> "Acme",
       domain |-> NoUrl, website |-> AcmeWww,
       employee_count |-> None, is_b2b |-> None],
      [id |-> 3, job_id |-> 1, prospeo_company_id |-> NULL, name |-> "Acme",
       domain |-> NoUrl, website |-> NoUrl,
       employee_count |-> None, is_b2b |-> None],
      [id |-> 4, job_id |-> 1, prospeo_company_id |-> NULL, name |-> "Acme",
       domain |-> NoUrl, website |-> AcmePage,
       employee_count |-> None, is_b2b |-> None] }

\* max_data_age_days of a job (models/database.py, default)
MAX_DATA_AGE_DAYS == 30

\* a row of person_counts, of an earlier job 0, for company 1 and "SDRs"
StoredCount(status, age_days) ==
    [id |-> 1, company_id |-> 1, job_id |-> 0, prospeo_company_id |-> "X",
     query_name |-> "SDRs", total_count |-> 5, status |-> status,
     error_code |-> IF status = "ok" THEN NULL ELSE "INVALID_FILTERS",
     age_days |-> age_days, is_active |-> TRUE]

\* the person_counts tables the routines are called on
StoredTables ==
    { {}, { StoredCount("ok", 1) }, { StoredCount("error", 1) },
      { StoredCount("ok", 31) } }

\* the jobs the routines are called for: job 1 with one named sub-query
CountJobs ==
    { [id |-> 1, person_filters |-> << q >>, skip_existing_person_counts |-> b,
       max_data_age_days |-> MAX_DATA_AGE_DAYS] : q \in QueryNames, b \in BOOLEAN }

\* Company.query.filter(or_(domain == root, website == root,
\*                          domain LIKE %root, website LIKE %root)).all()
RelatedCompanies(rows, root) ==
    { r \in rows : \/ ColumnEquals(r.domain, root)
                   \/ ColumnEquals(r.website, root)
                   \/ ColumnLike(r.domain, root)
                   \/ ColumnLike(r.website, root) }

\* _find_existing_person_count: both queries name PersonCount.is_active and
\* raise; without identifier and without related companies None is returned
find_existing_person_count(rows, company, query_name, max_age_days) ==
    LET root_domain ==
            registrable_root_domain(OrUrl(company.domain, company.website))
    IN IF company.prospeo_company_id # NULL
       THEN [raised |-> "AttributeError", existing |-> NULL]
       ELSE IF /\ OrUrl(company.domain, company.website) # NoUrl
               /\ root_domain # << >>
               /\ RelatedCompanies(rows, root_domain) # {}
       THEN [raised |-> "AttributeError", existing |-> NULL]
       ELSE [raised |-> NULL, existing |-> NULL]

\* _save_person_count_result: the filter of the deactivating UPDATE names
\* PersonCount.is_active and raises before any row is touched
save_person_count_result(table, job, company, query_name, result) ==
    [raised |-> "AttributeError", table |-> table, written |-> {}]

\* _process_person_counts for the first named sub-query of the job: the
\* lookup, the search with the domain root, the search with the website
\* root, and the save, which raises.  answers: the results the gateway
\* gives to the searches, in order
process_person_counts(table, rows, job, company, answers) ==
    LET query_name == job.person_filters[1]
        found == find_existing_person_count(rows, company, query_name,
                                            job.max_data_age_days)
        domain_root == registrable_root_domain(company.domain)
        website_root == registrable_root_domain(company.website)
        after_domain == IF domain_root # << >> THEN << domain_root >>
                        ELSE << >>
        fallback == website_root # << >> /\ website_root # domain_root
    IN IF job.skip_existing_person_counts /\ found.raised # NULL
       THEN [raised |-> found.raised, table |-> table, written |-> {},
             searched |-> << >>, saving |-> NoResult]
       ELSE IF domain_root # << >> /\ answers[1].total_count > 0
       THEN [raised |-> "AttributeError", table |-> table, written |-> {},
             searched |-> after_domain, saving |-> answers[1]]
       ELSE IF fallback
       THEN [raised |-> "AttributeError", table |-> table, written |-> {},
             searched |-> Append(after_domain, website_root),
             saving |-> answers[Len(after_domain) + 1]]
       ELSE IF domain_root # << >>
       THEN [raised |-> "AttributeError", table |-> table, written |-> {},
             searched |-> after_domain, saving |-> answers[1]]
       ELSE [raised |-> "AttributeError", table |-> table, written |-> {},
             searched |-> << >>, saving |-> NO_DOMAIN_RESULT]

CountsIdle ==
    /\ index = {}
    /\ failing = {}
    /\ failure = [_http_status |-> 500]
    /\ PlannerUnused
    /\ unique_prospeo_id = FALSE
    /\ jobs = << >>
    /\ companies = CountCompanies
    /\ job_refs = {}
    /\ next_company_id = 5
    /\ session = [j \in JobIds |-> CleanSession]
    /\ running_jobs = {}
    /\ runner = [j \in JobIds |-> IdleRunner]
    /\ stop_calls = {}
    /\ stops = 0
    /\ faults = 0
    /\ returned = 0

CountsInit ==
    /\ HubSpotUnused
    /\ CountsIdle
    /\ person_counts \in StoredTables
    /\ pc_calls = << >>
    /\ id_calls = << >>
    /\ http_calls = << >>
    /\ quick_runs = << >>
    /\ LimiterUnused

\* a call of _save_person_count_result
SavePersonCount(job, company, query_name, result) ==
    /\ Len(pc_calls) < MaxCalls
    /\ LET r == save_person_count_result(person_counts, job, company,
                                         query_name, result)
       IN /\ person_counts' = r.table
          /\ pc_calls' = Append(pc_calls,
               [op |-> "save", job_id |-> job.id, company_id |-> company.id,
                query_name |-> query_name, skip |-> FALSE,
                raised |-> r.raised, written |-> r.written,
                searched |-> << >>, saving |-> result])
    /\ UNCHANGED << id_calls, http_calls, hubspotVars, quick_runs,
                    limiterVars >>
    /\ UNCHANGED planVars
    /\ UNCHANGED jobVars

\* a call of _find_existing_person_count
FindPersonCount(job, company, query_name) ==
    /\ Len(pc_calls) < MaxCalls
    /\ LET r == find_existing_person_count(companies, company, query_name,
                                           job.max_data_age_days)
       IN pc_calls' = Append(pc_calls,
               [op |-> "find", job_id |-> job.id, company_id |-> company.id,
                query_name |-> query_name, skip |-> FALSE,
                raised |-> r.raised, written |-> {},
                searched |-> << >>, saving |-> NoResult,
                existing |-> r.existing])
    /\ UNCHANGED << person_counts, id_calls, http_calls, hubspotVars, quick_runs,
                    limiterVars >>
    /\ UNCHANGED planVars
    /\ UNCHANGED jobVars

\* a call of _process_person_counts
ProcessPersonCounts(job, company, answers) ==
    /\ Len(pc_calls) < MaxCalls
    /\ LET r == process_person_counts(person_counts, companies, job, company,
                                      answers)
       IN /\ person_counts' = r.table
          /\ pc_calls' = Append(pc_calls,
               [op |-> "process", job_id |-> job.id,
                company_id |-> company.id,
                query_name |-> job.person_filters[1],
                skip |-> job.skip_existing_person_counts,
                raised |-> r.raised, written |-> r.written,
                searched |-> r.searched, saving |-> r.saving])
    /\ UNCHANGED << id_calls, http_calls, hubspotVars, quick_runs,
                    limiterVars >>
    /\ UNCHANGED planVars
    /\ UNCHANGED jobVars

CountsNext ==
    \/ \E job \in CountJobs, company \in CountCompanies,
          result \in CountResults :
         SavePersonCount(job, company, job.person_filters[1], result)
    \/ \E job \in CountJobs, company \in CountCompanies :
         FindPersonCount(job, company, job.person_filters[1])
    \/ \E job \in CountJobs, company \in CountCompanies,
          answers \in [1..2 -> CountResults] :
         ProcessPersonCounts(job, company, answers)

SpecCounts == CountsInit /\ [][CountsNext]_vars

\* ------------------------------------------------------------------------
\* jobs/market_sizing_job.py: the company lookup and the upsert on their
\* own, called with arbitrary payloads on arbitrary stored companies
\* ------------------------------------------------------------------------

\* calls of the lookup and of the upsert
MaxIdCalls == 1

Stored(id, job_id, prospeo_id, name, domain, employee_count, is_b2b) ==
    [id |-> id, job_id |-> job_id, prospeo_company_id |-> prospeo_id,
     name |-> name, domain |-> domain, website |-> NoUrl,
     employee_count |-> employee_count, is_b2b |-> is_b2b]

\* the rows the companies table may hold: one with the identifier X, one
\* with the domain acme.com, one with the name Acme, one with a short name
StoredChoices ==
    { Stored(1, 1, "X", "Xeno", NoUrl, Some(50), Some(TRUE)),
      Stored(2, 1, NULL, "Beta", AcmeCom, None, None),
      Stored(3, 2, NULL, "Acme", NoUrl, None, None),
      Stored(4, 2, NULL, "Ace", NoUrl, None, None) }

\* the identities of incoming payloads: one that every rule can match, one
\* without identifier, one with a name only, one with a short name, one
\* that nothing matches
Identities ==
    { [company_id |-> "X", name |-> "Acme", domain |-> AcmeCom,
       website |-> NoUrl],
      [company_id |-> NULL, name |-> "Acme", domain |-> NoUrl,
       website |-> AcmeWww],
      [company_id |-> NULL, name |-> "Acme", domain |-> NoUrl,
       website |-> NoUrl],
      [company_id |-> NULL, name |-> "Ace", domain |-> NoUrl,
       website |-> NoUrl],
      [company_id |-> "Y", name |-> NULL, domain |-> NoUrl,
       website |-> NoUrl] }

\* the headcount and the b2b flag of incoming payloads: absent, 0 and
\* false, 7 and true
Details ==
    { [employee_count |-> None, is_b2b |-> None],
      [employee_count |-> Some(0), is_b2b |-> Some(FALSE)],
      [employee_count |-> Some(7), is_b2b |-> Some(TRUE)] }

IdPayloads ==
    { [company_id |-> i.company_id, name |-> i.name, domain |-> i.domain,
       website |-> i.website, employee_count |-> d.employee_count,
       is_b2b |-> d.is_b2b] : i \in Identities, d \in Details }

IdInit ==
    /\ HubSpotUnused
    /\ index = {}
    /\ failing = {}
    /\ failure = [_http_status |-> 500]
    /\ PlannerUnused
    /\ unique_prospeo_id \in BOOLEAN
    /\ jobs = << >>
    /\ companies \in SUBSET StoredChoices
    /\ job_refs = {}
    /\ next_company_id = 5
    /\ session = [j \in JobIds |-> CleanSession]
    /\ running_jobs = {}
    /\ runner = [j \in JobIds |-> IdleRunner]
    /\ stop_calls = {}
    /\ stops = 0
    /\ faults = 0
    /\ returned = 0
    /\ person_counts = {}
    /\ pc_calls = << >>
    /\ id_calls = << >>
    /\ http_calls = << >>
    /\ quick_runs = << >>
    /\ LimiterUnused

\* a call of _find_existing_company_globally: Company 0 stands for None
FindExisting(data) ==
    /\ Len(id_calls) < MaxIdCalls
    /\ LET found == find_existing_company_globally(companies, data)
       IN \E result \in IF found = {} THEN {0} ELSE { r.id : r \in found } :
            id_calls' = Append(id_calls,
              [op |-> "find", data |-> data, rows |-> companies,
               result |-> result, raised |-> NULL])
    /\ UNCHANGED << person_counts, pc_calls, http_calls, hubspotVars, quick_runs,
                    limiterVars >>
    /\ UNCHANGED planVars
    /\ UNCHANGED jobVars

\* a call of _save_company(job_id, data)
SaveCompany(job_id, data) ==
    /\ Len(id_calls) < MaxIdCalls
    /\ LET found == SaveLookup(companies, job_id, data)
           new == update_company_fields(
                      NewCompany(next_company_id, job_id, data.company_id),
                      data)
       IN IF found # {}
          THEN /\ \E existing \in found :
                    /\ companies' = (companies \ {existing})
                          \cup { update_company_fields(existing, data) }
                    /\ id_calls' = Append(id_calls,
                         [op |-> "save", data |-> data, rows |-> companies,
                          result |-> existing.id, raised |-> NULL])
               /\ UNCHANGED next_company_id
          ELSE /\ next_company_id' = next_company_id + 1
               /\ IF InsertConflicts(job_id, data.company_id)
                  THEN /\ id_calls' = Append(id_calls,
                            [op |-> "save", data |-> data, rows |-> companies,
                             result |-> 0, raised |-> "IntegrityError"])
                       /\ UNCHANGED companies
                  ELSE /\ companies' = companies \cup {new}
                       /\ id_calls' = Append(id_calls,
                            [op |-> "save", data |-> data, rows |-> companies,
                             result |-> new.id, raised |-> NULL])
    /\ UNCHANGED << unique_prospeo_id, jobs, job_refs, session, running_jobs,
                    runner, stop_calls, stops, faults, returned >>
    /\ UNCHANGED << person_counts, pc_calls, http_calls, hubspotVars, quick_runs,
                    limiterVars >>
    /\ UNCHANGED planVars

IdNext ==
    \/ \E data \in IdPayloads : FindExisting(data)
    \/ \E job_id \in JobIds, data \in IdPayloads : SaveCompany(job_id, data)

SpecIdentity == IdInit /\ [][IdNext]_vars

\* ------------------------------------------------------------------------
\* services/prospeo_client.py: one gateway call (_post) on its own, against
\* arbitrary HTTP answers, and what the page loop of _execute does with
\* its result
\* ------------------------------------------------------------------------

\* the attempts a call can make: the first and MAX_RETRIES more
MAX_RETRIES == 3

\* the retry-after header of an answer: missing, not a number, a number
HeaderChoices ==
    { [kind |-> "missing", value |-> 0], [kind |-> "text", value |-> 0],
      [kind |-> "int", value |-> 0], [kind |-> "int", value |-> 30],
      [kind |-> "int", value |-> 1000] }

\* an HTTP answer: the status (0: requests.post raised), the kind of body
\* (a JSON object with results, a JSON object with an error flag, a JSON
\* value that is no object, text that is no JSON) and the retry-after header
Answer(status, body, header) ==
    [status |-> status, body |-> body, retry_after |-> header]

NoHeader == [kind |-> "missing", value |-> 0]

HttpAnswers ==
    { Answer(200, "results", NoHeader), Answer(400, "error", NoHeader),
      Answer(500, "results", NoHeader), Answer(500, "text", NoHeader),
      Answer(200, "text", NoHeader), Answer(200, "list", NoHeader),
      Answer(0, "none", NoHeader) }
    \cup { Answer(429, "error", h) : h \in HeaderChoices }

\* _safe_json
safe_json(response) ==
    IF response.body = "results" THEN [results |-> << >>]
    ELSE IF response.body = "error"
    THEN [error |-> TRUE, error_code |-> "INVALID_FILTERS"]
    ELSE IF response.body = "list"
    THEN [error |-> TRUE, error_code |-> "INVALID_JSON_FORMAT"]
    ELSE [error |-> TRUE, error_code |-> "NON_JSON_RESPONSE"]

Min(a, b) == IF a < b THEN a ELSE b

Max(a, b) == IF a > b THEN a ELSE b

\* the header is taken as it comes
retry_after_unclamped(header) ==
    IF header.kind = "int" THEN header.value ELSE 60

\* the seconds _post sleeps before a retry
retry_after(header) ==
    IF header.kind = "int" THEN Max(1, Min(header.value, 300)) ELSE 60

\* _post(path, payload, retry_count) when the gateway gives answers[1],
\* answers[2], ... to its attempts: the attempts made, the sleeps between
\* them, and the dict returned or the exception raised
RECURSIVE post(_, _)
post(answers, retry_count) ==
    LET response == answers[retry_count + 1]
        data == safe_json(response)
    IN IF response.status = 0
       THEN [attempts |-> retry_count + 1, sleeps |-> << >>,
             raised |-> "ConnectionError", data |-> [x \in {} |-> NULL]]
       ELSE IF response.status = 429
       THEN IF retry_count < MAX_RETRIES
            THEN LET later == post(answers, retry_count + 1)
                 IN [later EXCEPT !.sleeps =
                       << retry_after(response.retry_after) >> \o @]
            ELSE [attempts |-> retry_count + 1, sleeps |-> << >>,
                  raised |-> NULL,
                  data |-> SetKey(SetKey(SetKey(data,
                              "_http_status", response.status),
                              "error", TRUE),
                              "error_code", "RATE_LIMIT_EXCEEDED")]
       ELSE [attempts |-> retry_count + 1, sleeps |-> << >>,
             raised |-> NULL,
             data |-> SetKey(data, "_http_status", response.status)]

PostInit ==
    /\ HubSpotUnused
    /\ index = {}
    /\ failing = {}
    /\ failure = [_http_status |-> 500]
    /\ PlannerUnused
    /\ JobsUnused

\* search_companies(segment_filters, page) in the page loop of _execute:
\* the page is skipped when the response is an error, handled otherwise;
\* an exception leaves _execute
FetchPage(answers) ==
    /\ http_calls = << >>
    /\ LET r == post(answers, 0)
       IN http_calls' = Append(http_calls,
            [answers |-> SubSeq(answers, 1, r.attempts),
             attempts |-> r.attempts, sleeps |-> r.sleeps,
             raised |-> r.raised, data |-> r.data,
             page |-> IF r.raised # NULL THEN "raised"
                      ELSE IF is_error(r.data) THEN "skipped"
                      ELSE "handled"])
    /\ UNCHANGED << person_counts, pc_calls, id_calls, hubspotVars, quick_runs,
                    limiterVars >>
    /\ UNCHANGED planVars
    /\ UNCHANGED jobVars

PostNext == \E answers \in [1..(MAX_RETRIES + 1) -> HttpAnswers] :
                FetchPage(answers)

SpecPost == PostInit /\ [][PostNext]_vars

\* ------------------------------------------------------------------------
\* services/hubspot_client.py: a HubSpotClient on its own, its search
\* methods called at arbitrary times.  Times are in tenths of a second.
\* ------------------------------------------------------------------------

\* HubSpot requests sent
MaxHsRequests == 7

\* the latest time (1.0 s) up to which time passes between two calls
MaxHsClock == 10

Seconds(n) == n * 10

\* the time that passes between two calls: 0.5 s (or none)
Delays == { 5 }

\* Config.HUBSPOT_MAX_PER_10_SECONDS, which config.py does not declare: the
\* 5 that test_rate_limiter_config expects of it, the 100 of the comments of
\* HubSpotClient
HUBSPOT_MAX_PER_10_SECONDS == { 5, 100 }

\* HubSpotClient.__init__: the fields of the rate limiter
HubSpotClient(max_per_window) ==
    [max_requests_per_window |-> max_per_window,
     window_duration |-> Seconds(10),
     request_times |-> << >>]

Within(now, window_duration, t) == now - t < window_duration

\* _rate_limit_wait at time now: the client after it and the time at which
\* it returns
rate_limit_wait(client, now) ==
    LET kept == SelectSeq(client.request_times,
                          LAMBDA t : Within(now, client.window_duration, t))
        sleep_time ==
            IF Len(kept) >= client.max_requests_per_window
            THEN client.window_duration - (now - kept[1]) + 1
            ELSE 0
        woken == IF sleep_time > 0 THEN now + sleep_time ELSE now
    IN [client |-> [client EXCEPT !.request_times = Append(kept, woken)],
        now |-> woken]

\* what a request comes back with: the parsed body, or {"error": ...} when
\* requests raised
HsAnswers ==
    { [results |-> << [id |-> "1"] >>],
      [results |-> << >>],
      [total |-> 0],
      [error |-> "HTTPError"] }

\* _make_request: the limiter, then the request, sent when the limiter
\* returns
make_request(client, now, answer) ==
    LET w == rate_limit_wait(client, now)
    IN [client |-> w.client, now |-> w.now, sent |-> << w.now >>,
        result |-> answer]

\* the arguments of the search methods: None, "", a value
HsArguments == { NULL, "", "acme" }

\* mutant: no guard on the argument
search_company_unguarded(client, now, value, answer) ==
    LET r == make_request(client, now, answer)
    IN [client |-> r.client, now |-> r.now, sent |-> r.sent,
        returned |-> Get(r.result, "results", << >>)]

\* search_company_by_linkedin_handle and search_company_by_domain: the
\* two differ in the property they search on
search_company(client, now, value, answer) ==
    IF value = NULL \/ value = ""
    THEN [client |-> client, now |-> now, sent |-> << >>, returned |-> << >>]
    ELSE LET r == make_request(client, now, answer)
         IN [client |-> r.client, now |-> r.now, sent |-> r.sent,
             returned |-> Get(r.result, "results", << >>)]

search_company_by_linkedin_handle(client, now, handle, answer) ==
    search_company(client, now, handle, answer)

search_company_by_domain(client, now, domain, answer) ==
    search_company(client, now, domain, answer)

NoCall == [method |-> "none", arg |-> "none", returned |-> << >>]

HsInit ==
    /\ index = {}
    /\ failing = {}
    /\ failure = [_http_status |-> 500]
    /\ PlannerUnused
    /\ JobsUnused
    /\ clock = 0
    /\ \E max_per_window \in HUBSPOT_MAX_PER_10_SECONDS :
         hubspot_client = HubSpotClient(max_per_window)
    /\ hs_sent = << >>
    /\ hs_last = NoCall

HsCalled(method, arg, r) ==
    /\ hubspot_client' = r.client
    /\ clock' = r.now
    /\ hs_sent' = hs_sent \o r.sent
    /\ hs_last' = [method |-> method, arg |-> arg, returned |-> r.returned]
    /\ UNCHANGED << person_counts, pc_calls, id_calls, http_calls, quick_runs,
                    limiterVars >>
    /\ UNCHANGED planVars
    /\ UNCHANGED jobVars

SearchByLinkedinHandle(handle, answer) ==
    /\ Len(hs_sent) < MaxHsRequests
    /\ HsCalled("search_company_by_linkedin_handle", handle,
                search_company_by_linkedin_handle(hubspot_client, clock,
                                                  handle, answer))

SearchByDomain(domain, answer) ==
    /\ Len(hs_sent) < MaxHsRequests
    /\ HsCalled("search_company_by_domain", domain,
                search_company_by_domain(hubspot_client, clock, domain,
                                         answer))

\* time passes between two calls
Elapse(d) ==
    /\ clock + d <= MaxHsClock
    /\ clock' = clock + d
    /\ UNCHANGED << hubspot_client, hs_sent, hs_last >>
    /\ UNCHANGED << person_counts, pc_calls, id_calls, http_calls, quick_runs,
                    limiterVars >>
    /\ UNCHANGED planVars
    /\ UNCHANGED jobVars

HsNext ==
    \/ \E handle \in HsArguments, answer \in HsAnswers :
         SearchByLinkedinHandle(handle, answer)
    \/ \E domain \in HsArguments, answer \in HsAnswers :
         SearchByDomain(domain, answer)
    \/ \E d \in Delays : Elapse(d)

SpecHubSpot == HsInit /\ [][HsNext]_vars

\* ------------------------------------------------------------------------
\* app.py: run_quick_tam_job on its own, called on arbitrary quick_tam jobs
\* against a gateway that answers each search with a result, with an error,
\* or not at all
\* ------------------------------------------------------------------------

\* the named sub-queries a job has at most
MaxSubQueries == 2

Sales == [include |-> {"Sales"}, exclude |-> {}]

SalesNotMarketing == [include |-> {"Sales"}, exclude |-> {"Marketing"}]

\* the entries of job.person_filters: two named sub-queries, one of them
\* with include and exclude on person_department, and one without a name
PersonConfigs ==
    { [name |-> "SDRs", filters |-> [person_department |-> Sales]],
      [name |-> "AEs", filters |-> [person_department |-> SalesNotMarketing]],
      [filters |-> [person_department |-> Sales]] }

\* the quick_tam jobs as create_job commits them
QuickJobs ==
    { [status |-> "pending", company_filters |-> f, person_filters |-> p,
       total_companies |-> 0, actual_credits |-> 0, error_message |-> NULL,
       aggregate_results |-> None] :
         f \in { NoFilters, SetKey(NoFilters, "company_location_search", US) },
         p \in UNION { [1..n -> PersonConfigs] : n \in 0..MaxSubQueries } }

\* what a search comes back with: a response of _post, or the exception
\* requests.post raised
Responded(response) == [raised |-> NULL, response |-> response]

QuickAnswers ==
    { Responded([_http_status |-> 200,
                 pagination |-> [current_page |-> 1, total_count |-> n]]) :
        n \in { 0, 7 } }
    \cup
    { Responded([_http_status |-> 200]),
      Responded([error |-> TRUE, error_code |-> "INVALID_FILTERS",
                 _http_status |-> 400]),
      [raised |-> "ConnectionError", response |-> EmptyDict] }

\* the filters of the person search of one sub-query: its own filters
\* updated by the company filters, person_department cut down to its
\* include list when it has both lists
person_search_filters(person_config, company_filters) ==
    LET p_filters == Merge(Get(person_config, "filters", EmptyDict),
                           company_filters)
        dept == Get(p_filters, "person_department", Sales)
    IN IF /\ "person_department" \in DOMAIN p_filters
          /\ dept.include # {} /\ dept.exclude # {}
       THEN SetKey(p_filters, "person_department",
                   [include |-> dept.include])
       ELSE p_filters

SearchRequest(endpoint, filters) ==
    [endpoint |-> endpoint, payload |-> [page |-> 1, filters |-> filters]]

\* the loop over job.person_filters from entry i on: run is the job, the
\* requests sent and credits_used so far, aggregate_results the dict built
\* so far; answers[k] is what the k-th search of the call comes back with.
\* An exception leaves the loop for the except clause
RECURSIVE person_searches(_, _, _, _)
person_searches(run, aggregate_results, i, answers) ==
    IF i > Len(run.job.person_filters)
    THEN [run EXCEPT !.job = Merge(@,
            [aggregate_results |-> Some(aggregate_results),
             actual_credits |-> run.credits_used,
             status |-> "completed"])]
    ELSE LET person_config == run.job.person_filters[i]
             query_name == Get(person_config, "name", "Unnamed Query")
             p_filters == person_search_filters(person_config,
                                                run.job.company_filters)
             answer == answers[Len(run.requests) + 1]
             p_response == answer.response
             sent == Append(run.requests,
                            SearchRequest("/search-person", p_filters))
         IN IF answer.raised # NULL
            THEN [run EXCEPT !.requests = sent, !.raised = answer.raised,
                    !.job = Merge(@, [status |-> "failed",
                                      error_message |-> answer.raised])]
            ELSE IF ~ is_error(p_response)
                    /\ "total_count" \notin DOMAIN get_pagination(p_response)
            THEN [run EXCEPT !.requests = sent, !.raised = "KeyError",
                    !.credits_used = @ + 1,
                    !.job = Merge(@, [status |-> "failed",
                                      error_message |-> "'total_count'"])]
            ELSE person_searches(
                    [run EXCEPT !.requests = sent, !.credits_used = @ + 1],
                    SetKey(aggregate_results, query_name,
                           IF ~ is_error(p_response)
                           THEN get_pagination(p_response).total_count
                           ELSE 0),
                    i + 1, answers)

\* the company search is not counted as a credit
run_quick_tam_job_uncounted(job, answers) ==
    LET response == answers[1].response
        sent == << SearchRequest("/search-company", job.company_filters) >>
        run == [job |-> Merge(job, [status |-> "running"]),
                requests |-> sent, credits_used |-> 0, raised |-> NULL]
    IN IF answers[1].raised # NULL
       THEN [run EXCEPT !.raised = answers[1].raised,
               !.job = Merge(@, [status |-> "failed",
                                 error_message |-> answers[1].raised])]
       ELSE IF is_error(response)
       THEN [run EXCEPT !.job = Merge(@,
               [status |-> "failed",
                error_message |-> "Company search failed: "
                                    \o get_error_code(response)])]
       ELSE IF "total_count" \notin DOMAIN get_pagination(response)
       THEN [run EXCEPT !.raised = "KeyError",
               !.job = Merge(@, [status |-> "failed",
                                 error_message |-> "'total_count'"])]
       ELSE person_searches(
               [run EXCEPT !.credits_used = 0,
                  !.job = Merge(@, [total_companies |->
                                      get_pagination(response).total_count])],
               EmptyDict, 1, answers)

\* run_quick_tam_job(job): the job row as the final commit leaves it, the
\* searches sent to the gateway in order, the local credits_used, and the
\* exception the except clause caught
run_quick_tam_job(job, answers) ==
    LET response == answers[1].response
        sent == << SearchRequest("/search-company", job.company_filters) >>
        run == [job |-> Merge(job, [status |-> "running"]),
                requests |-> sent, credits_used |-> 0, raised |-> NULL]
    IN IF answers[1].raised # NULL
       THEN [run EXCEPT !.raised = answers[1].raised,
               !.job = Merge(@, [status |-> "failed",
                                 error_message |-> answers[1].raised])]
       ELSE IF is_error(response)
       THEN [run EXCEPT !.job = Merge(@,
               [status |-> "failed",
                error_message |-> "Company search failed: "
                                    \o get_error_code(response)])]
       ELSE IF "total_count" \notin DOMAIN get_pagination(response)
       THEN [run EXCEPT !.raised = "KeyError",
               !.job = Merge(@, [status |-> "failed",
                                 error_message |-> "'total_count'"])]
       ELSE person_searches(
               [run EXCEPT !.credits_used = 1,
                  !.job = Merge(@, [total_companies |->
                                      get_pagination(response).total_count])],
               EmptyDict, 1, answers)

QuickInit ==
    /\ HubSpotUnused
    /\ index = {}
    /\ failing = {}
    /\ failure = [_http_status |-> 500]
    /\ PlannerUnused
    /\ JobsUnused

\* create_job for one quick_tam job: run_quick_tam_job(job) inside the
\* request.  The answers logged are the ones the call consumed
QuickTam(job, answers) ==
    /\ quick_runs = << >>
    /\ LET r == run_quick_tam_job(job, answers)
       IN quick_runs' =
            << [submitted |-> job,
                answers |-> SubSeq(answers, 1, Len(r.requests)),
                job |-> r.job, requests |-> r.requests,
                credits_used |-> r.credits_used, raised |-> r.raised] >>
    /\ UNCHANGED << person_counts, pc_calls, id_calls, http_calls,
                    hubspotVars, limiterVars >>
    /\ UNCHANGED planVars
    /\ UNCHANGED jobVars

QuickNext ==
    \E job \in QuickJobs, answers \in [1..(MaxSubQueries + 1) -> QuickAnswers] :
        QuickTam(job, answers)

SpecQuick == QuickInit /\ [][QuickNext]_vars

\* ------------------------------------------------------------------------
\* services/prospeo_client.py: the rate limiter of one ProspeoClient, the
\* module-level client of app.py, which the request handlers of the
\* threaded server call without a lock.  Times are in sixtieths of a second.
\* ------------------------------------------------------------------------

\* requests sent
MaxProspeoRequests == 3

\* sixtieths of a second the clock runs on its own
MaxTicks == 4

PROSPEO_MAX_PER_SECOND == 30

PROSPEO_MAX_PER_MINUTE == 1800

Ticks(seconds) == seconds * 60

\* the time the process starts: time.time() is far from 0.0
Epoch == Ticks(1)

\* the request handlers that may be inside _post at the same time
Threads == { 1, 2 }

\* ProspeoClient()
ProspeoClient ==
    [min_interval |-> Max(Ticks(1) \div PROSPEO_MAX_PER_SECOND,
                          Ticks(60) \div PROSPEO_MAX_PER_MINUTE),
     _last_request_ts |-> 0,
     _current_per_second |-> None]

\* the x-second-rate-limit header of a response: missing, not a number,
\* out of range, in range
RateLimitHeaders ==
    { [kind |-> "missing", value |-> 0], [kind |-> "text", value |-> 0],
      [kind |-> "int", value |-> 0], [kind |-> "int", value |-> 2000],
      [kind |-> "int", value |-> 20], [kind |-> "int", value |-> 60] }

\* _update_rate_limits_from_headers
update_rate_limits_from_headers(client, header) ==
    IF /\ header.kind = "int"
       /\ 1 <= header.value /\ header.value <= 1000
       /\ Some(header.value) # client._current_per_second
    THEN [client EXCEPT !._current_per_second = Some(header.value),
                        !.min_interval = Ticks(1) \div header.value]
    ELSE client

\* the responses a request gets: a status with its rate-limit header, or
\* 429 with a retry-after header
LimiterAnswers ==
    { [status |-> 200, rate_limit |-> h, retry_after |-> NoHeader] :
        h \in RateLimitHeaders }
    \cup { [status |-> 429, rate_limit |-> [kind |-> "missing", value |-> 0],
            retry_after |-> [kind |-> "int", value |-> 1]] }

Outside == [pc |-> "outside", wake |-> 0, min_interval |-> 0, retry_count |-> 0]

LimiterInit ==
    /\ HubSpotUnused
    /\ index = {}
    /\ failing = {}
    /\ failure = [_http_status |-> 500]
    /\ PlannerUnused
    /\ unique_prospeo_id = FALSE
    /\ jobs = << >>
    /\ companies = {}
    /\ job_refs = {}
    /\ next_company_id = 1
    /\ session = [j \in JobIds |-> CleanSession]
    /\ running_jobs = {}
    /\ runner = [j \in JobIds |-> IdleRunner]
    /\ stop_calls = {}
    /\ stops = 0
    /\ faults = 0
    /\ returned = 0
    /\ person_counts = {}
    /\ pc_calls = << >>
    /\ id_calls = << >>
    /\ http_calls = << >>
    /\ quick_runs = << >>
    /\ ptime = Epoch
    /\ prospeo_client = ProspeoClient
    /\ posting = [t \in Threads |-> Outside]
    /\ prospeo_sent = << >>

LimiterRest ==
    /\ UNCHANGED << person_counts, pc_calls, id_calls, http_calls,
                    hubspotVars, quick_runs >>
    /\ UNCHANGED planVars
    /\ UNCHANGED jobVars

\* _rate_limit_wait up to time.sleep: the thread reads the clock, the last
\* timestamp and min_interval, and knows how long it will sleep
RateLimitWait(t) ==
    /\ posting[t].pc = "outside"
    /\ Len(prospeo_sent)
         + Cardinality({ u \in Threads : posting[u].pc = "waiting" })
            < MaxProspeoRequests
    /\ LET elapsed == ptime - prospeo_client._last_request_ts
           delay_time == IF elapsed < prospeo_client.min_interval
                         THEN prospeo_client.min_interval - elapsed ELSE 0
       IN posting' = [posting EXCEPT ![t].pc = "waiting",
                         ![t].wake = ptime + delay_time,
                         ![t].min_interval = prospeo_client.min_interval]
    /\ UNCHANGED << ptime, prospeo_client, prospeo_sent >>
    /\ LimiterRest

\* the end of _rate_limit_wait, once the sleep is over: the timestamp is
\* written and requests.post sends the request
SendRequest(t) ==
    /\ posting[t].pc = "waiting"
    /\ ptime >= posting[t].wake
    /\ prospeo_client' = [prospeo_client EXCEPT !._last_request_ts = ptime]
    /\ prospeo_sent' = Append(prospeo_sent,
         [at |-> ptime, thread |-> t,
          min_interval |-> posting[t].min_interval])
    /\ posting' = [posting EXCEPT ![t].pc = "sent"]
    /\ UNCHANGED ptime
    /\ LimiterRest

\* the rest of _post: a 429 is slept on and retried, up to MAX_RETRIES
\* times, through the limiter again; any other response updates the limits
\* from its headers and is returned
Respond(t, answer) ==
    /\ posting[t].pc = "sent"
    /\ IF answer.status = 429
       THEN IF posting[t].retry_count < MAX_RETRIES
            THEN /\ ptime' = ptime + Ticks(retry_after(answer.retry_after))
                 /\ posting' = [posting EXCEPT ![t].pc = "outside",
                                               ![t].retry_count = @ + 1]
                 /\ UNCHANGED prospeo_client
            ELSE /\ posting' = [posting EXCEPT ![t] = Outside]
                 /\ UNCHANGED << ptime, prospeo_client >>
       ELSE /\ prospeo_client' =
                 update_rate_limits_from_headers(prospeo_client,
                                                 answer.rate_limit)
            /\ posting' = [posting EXCEPT ![t] = Outside]
            /\ UNCHANGED ptime
    /\ UNCHANGED prospeo_sent
    /\ LimiterRest

\* a sixtieth of a second passes
Tick ==
    /\ ptime < Epoch + MaxTicks
    /\ ptime' = ptime + 1
    /\ UNCHANGED << prospeo_client, posting, prospeo_sent >>
    /\ LimiterRest

LimiterNext ==
    \/ \E t \in Threads : RateLimitWait(t)
    \/ \E t \in Threads : SendRequest(t)
    \/ \E t \in Threads, answer \in LimiterAnswers : Respond(t, answer)
    \/ Tick

SpecLimiter == LimiterInit /\ [][LimiterNext]_vars

\* ------------------------------------------------------------------------
\* jobs/market_sizing_job.py: one detailed job alone, walking plans with
\* segments of several pages and pages of several companies
\* ------------------------------------------------------------------------

\* rows of one result page the gateway returns to the job
MaxWalkPageLen == 2

\* companies the gateway returns over all the page fetches of the job
MaxWalkCompanies == 3

\* indexes whose plans have a segment of two pages followed by a segment of
\* one page, and a single segment of three pages
WalkIndexes ==
    { { Group("United States", PER_PAGE + 1), Group("United Kingdom", 1),
        Group("Germany", MAX_RESULTS_PER_QUERY) },
      { Group("United States", 2 * PER_PAGE + 1) } }

USSegment == SetKey(NoFilters, "company_location_search", US)

\* the gateways of the walk: the indexes above answering every count
\* query, the first of them failing the count query of the United States
\* segment, and an index whose United States segment is split by headcount,
\* failing the count query of the sub-segment that holds its companies
WalkGateways ==
    { [index |-> idx, failing |-> {}] : idx \in WalkIndexes }
    \cup
    { [index |-> { Group("United States", PER_PAGE + 1),
                  Group("United Kingdom", 1),
                  Group("Germany", MAX_RESULTS_PER_QUERY) },
       failing |-> { USSegment }],
      [index |-> { Group("United States", MAX_RESULTS_PER_QUERY + 1) },
       failing |-> { SetKey(USSegment, "company_headcount_range",
                            {"1-10"}) }] }

WalkResultPages == UNION { [1..n -> Payloads] : n \in 0..MaxWalkPageLen }

\* the state after create_job has committed a detailed job and started its
\* runner
WalkInit ==
    /\ HubSpotUnused
    /\ \E g \in WalkGateways : index = g.index /\ failing = g.failing
    /\ failure = [error |-> TRUE, error_code |-> "INVALID_FILTERS",
                  _http_status |-> 400]
    /\ PlannerUnused
    /\ unique_prospeo_id = FALSE
    /\ \E c \in { x \in JobConfigs : x.mode = "detailed" } :
         jobs = << [status |-> "pending", mode |-> c.mode,
                    company_filters |-> c.company_filters,
                    person_filters |-> c.person_filters,
                    skip_existing_companies |-> c.skip_existing_companies,
                    skip_existing_hubspot |-> c.skip_existing_hubspot,
                    error_message |-> NULL, total_companies |-> 0,
                    estimated_credits |-> 0, processed_companies |-> 0,
                    companies_skipped |-> 0, actual_credits |-> 0] >>
    /\ companies = {}
    /\ job_refs = {}
    /\ next_company_id = 1
    /\ session = [j \in JobIds |-> CleanSession]
    /\ running_jobs = {1}
    /\ runner = [j \in JobIds |->
                   IF j = 1 THEN [IdleRunner EXCEPT !.pc = "start"]
                   ELSE IdleRunner]
    /\ stop_calls = {}
    /\ stops = 0
    /\ faults = 0
    /\ returned = 0
    /\ person_counts = {}
    /\ pc_calls = << >>
    /\ id_calls = << >>
    /\ http_calls = << >>
    /\ quick_runs = << >>
    /\ LimiterUnused

\* the page loop against the result pages of the walk
WalkPage(j) == RunnerPageOf(j, WalkResultPages, MaxWalkCompanies)

WalkNext ==
    \/ RunnerStart(1)
    \/ RunnerPlan(1)
    \/ WalkPage(1)
    \/ RunnerCompany(1)
    \/ RunnerSave(1)
    \/ RunnerFinish(1)
    \/ RunnerExcept(1)
    \/ StopRequest(1)
    \/ StopCommit(1)

SpecWalk == WalkInit /\ [][WalkNext]_vars

\* ------------------------------------------------------------------------
\* Properties of the planner (under SpecPlan)
\* ------------------------------------------------------------------------

Built == ppc = "built"

BaseCount == TotalCount(index, base_filters)

\* p = ceil(c / 25), stated without the division
IsCeilPages(p, c) ==
    /\ p >= 0
    /\ p * 25 >= c
    /\ p * 25 < c + 25

RECURSIVE SumOf(_, _)
SumOf(seq, field) ==
    IF seq = << >> THEN 0 ELSE seq[1][field] + SumOf(Tail(seq), field)

SegmentsMatching(g) ==
    { i \in 1..Len(plan.segments) : Matches(g, plan.segments[i].filters) }

\* C1: when the base count exceeds the ceiling, every company of the index
\* matches the base filters iff it matches the filters of exactly one
\* segment of the plan (the segments are disjoint and cover the base set).
C1_SegmentsPartitionBase ==
    (Built /\ base_filters \notin failing /\ BaseCount > MAX_RESULTS_PER_QUERY)
    => \A g \in index :
         /\ Cardinality(SegmentsMatching(g)) <= 1
         /\ Matches(g, base_filters) <=> (SegmentsMatching(g) # {})

\* C2: a reported total of at most 25,000 (25,000 included) gives error=false
\* and exactly one segment: the base filters, the reported total, and
\* ceil(total/25) pages.
C2_SingleSegmentWithinCeiling ==
    (Built /\ base_filters \notin failing /\ BaseCount <= 25000)
    => /\ plan.error = FALSE
       /\ Len(plan.segments) = 1
       /\ plan.segments[1].filters = base_filters
       /\ plan.segments[1].estimated_count = BaseCount
       /\ IsCeilPages(plan.segments[1].pages, BaseCount)

C2_Witness ==
    /\ Built /\ base_filters \notin failing
    /\ BaseCount = 25000
    /\ Len(plan.segments) = 1

NoAxis ==
    /\ "company_location_search" \notin DOMAIN base_filters
    /\ "company_headcount_range" \notin DOMAIN base_filters

WithCountry(f, c) ==
    [x \in DOMAIN f \cup {"company_location_search"} |->
        IF x = "company_location_search"
        THEN [include |-> {c}, exclude |-> {}] ELSE f[x]]

WithBucket(f, r) ==
    [x \in DOMAIN f \cup {"company_headcount_range"} |->
        IF x = "company_headcount_range" THEN {r} ELSE f[x]]

\* C3 as stated: with neither axis constrained and a total above 25,000 the
\* plan has exactly one segment per supported country, the base filters plus
\* that country.
C3_OneSegmentPerCountry ==
    (Built /\ base_filters \notin failing /\ NoAxis /\ BaseCount > 25000)
    => /\ Len(plan.segments) = 3
       /\ \A i \in 1..3 :
            plan.segments[i].filters = WithCountry(base_filters, COUNTRIES[i])

\* the count the gateway reports for the segment of country c (0 on error)
CountryCount(c) ==
    IF WithCountry(base_filters, c) \in failing THEN 0
    ELSE TotalCount(index, WithCountry(base_filters, c))

\* the filters of the segments that country c contributes
CountryPart(c) ==
    IF CountryCount(c) <= 25000 THEN << WithCountry(base_filters, c) >>
    ELSE [ k \in 1..11 |->
             WithBucket(WithCountry(base_filters, c), EMPLOYEE_RANGES[k]) ]

\* C3 amended: with neither axis constrained and a total above 25,000 the
\* plan lists, country by country in the order of the supported countries,
\* one segment (base filters plus the country) for a country whose count is
\* at most 25,000, and 11 segments (base filters plus the country plus one
\* headcount bucket each) for a country whose count is above 25,000; so it
\* has exactly N segments when no country is above 25,000.
C3_CountrySegmentsWithBuckets ==
    (Built /\ base_filters \notin failing /\ NoAxis /\ BaseCount > 25000)
    => /\ [ i \in 1..Len(plan.segments) |-> plan.segments[i].filters ]
            = CountryPart("United States") \o CountryPart("United Kingdom")
                \o CountryPart("Canada")
       /\ (\A c \in Range(COUNTRIES) : CountryCount(c) <= 25000)
            => Len(plan.segments) = 3

C3_Witness ==
    /\ Built /\ base_filters \notin failing /\ NoAxis /\ BaseCount > 25000
    /\ CountryCount("United States") > 25000
    /\ CountryCount("United Kingdom") = 1
    /\ Len(plan.segments) = 13

\* C4: in every plan each segment has pages = ceil(estimated_count / 25),
\* total_estimated is the sum of the segments' estimated_count and
\* credits_estimate the sum of their pages.
C4_PlanTotals ==
    Built
    => /\ \A i \in 1..Len(plan.segments) :
            IsCeilPages(plan.segments[i].pages,
                        plan.segments[i].estimated_count)
       /\ plan.total_estimated = SumOf(plan.segments, "estimated_count")
       /\ plan.credits_estimate = SumOf(plan.segments, "pages")

C4_Witness ==
    /\ Built
    /\ Len(plan.segments) > 3
    /\ \E i, j \in 1..Len(plan.segments) :
         /\ i # j
         /\ plan.segments[i].estimated_count = 1
         /\ plan.segments[j].estimated_count = 25000

\* C5: an error on the initial count query gives a plan with error=true, the
\* gateway's error code, no segments and zero totals, after that one query.
C5_InitialErrorAbortsPlan ==
    (Built /\ base_filters \in failing)
    => /\ plan.error = TRUE
       /\ ("error_code" \in DOMAIN failure
             => plan.error_code = failure.error_code)
       /\ plan.segments = << >>
       /\ plan.total_estimated = 0
       /\ plan.credits_estimate = 0
       /\ calls = << base_filters >>

C5_Witness ==
    /\ Built /\ base_filters \in failing
    /\ plan.error = TRUE
    /\ plan.error_code = "INVALID_FILTERS"

Axes == { "company_location_search", "company_headcount_range" }

\* the count the gateway reports for a filter set (0 on an error answer)
ReportedCount(f) == IF f \in failing THEN 0 ELSE TotalCount(index, f)

PlanFilters == { plan.segments[i].filters : i \in 1..Len(plan.segments) }

\* C24: in every plan a segment with an estimated_count above 25,000 has
\* both a location and a headcount constraint; a first-level segment that
\* is over the ceiling and has an unused axis is replaced by its split
\* along that axis; no segment differs from the base filters in more than
\* the two axes (the split is at most one level deep below the first).
C24_OversizedSegmentsUseBothAxes ==
    (Built /\ ~ plan.error)
    => /\ \A i \in 1..Len(plan.segments) :
            LET seg == plan.segments[i] IN
            /\ seg.estimated_count > 25000 => Axes \subseteq DOMAIN seg.filters
            /\ DOMAIN seg.filters \subseteq DOMAIN base_filters \cup Axes
            /\ \A k \in DOMAIN base_filters : seg.filters[k] = base_filters[k]
       /\ (NoAxis /\ BaseCount > 25000)
            => \A c \in Range(COUNTRIES) :
                 ReportedCount(WithCountry(base_filters, c)) > 25000
                 => /\ WithCountry(base_filters, c) \notin PlanFilters
                    /\ \A r \in Range(EMPLOYEE_RANGES) :
                         WithBucket(WithCountry(base_filters, c), r)
                           \in PlanFilters

C24_Witness ==
    /\ Built /\ ~ plan.error
    /\ NoAxis
    /\ Len(plan.segments) = 13
    /\ \E i \in 1..Len(plan.segments) :
         /\ plan.segments[i].estimated_count > 25000
         /\ plan.segments[i].filters =
              WithBucket(WithCountry(base_filters, "United States"), "1-10")

\* ------------------------------------------------------------------------
\* Properties of the jobs (under Spec)
\* ------------------------------------------------------------------------

Terminal == { "completed", "failed", "stopped" }

\* C6: once a job's status is completed, failed or stopped, no step (the
\* runner finishing, a stop request, a quick-TAM run) changes it again
C6_TerminalStatusIsFinal ==
    [][\A j \in 1..Len(jobs) :
          jobs[j].status \in Terminal => jobs'[j].status = jobs[j].status]_vars

\* the pcs of a runner inside the segment loop of _execute
InSegmentLoop == { "page", "company", "save" }

\* stop() reached the runner of job j while it was processing a segment,
\* stop_job has written its status, and the runner has returned
StoppedMidRun(j) ==
    /\ jobs[j].mode = "detailed"
    /\ runner[j].stop_seen # << >>
    /\ runner[j].stop_seen[1].pc \in InSegmentLoop
    /\ j \notin stop_calls
    /\ runner[j].pc = "done"

\* C7: a detailed job stopped while processing segment k fetches no page of
\* a later segment and its final status is stopped
C7_StopMidRunEndsStopped ==
    \A j \in 1..Len(jobs) :
        StoppedMidRun(j) =>
            /\ runner[j].segment_idx <= runner[j].stop_seen[1].segment_idx
            /\ jobs[j].status = "stopped"

\* _execute of job j raised, no stop was requested, and run() has returned
RaisedAndReturned(j) ==
    /\ jobs[j].mode = "detailed"
    /\ runner[j].exc # NULL
    /\ runner[j].stop_seen = << >>
    /\ runner[j].pc = "done"

\* C8: when _execute raises, run() leaves the job failed with the
\* exception's message as error_message
C8_ExceptionEndsFailed ==
    \A j \in 1..Len(jobs) :
        RaisedAndReturned(j) =>
            /\ jobs[j].status = "failed"
            /\ jobs[j].error_message = runner[j].exc

\* the plan of job j came back with error = true, no stop was requested, and
\* run() has returned
PlanErrorAndReturned(j) ==
    /\ jobs[j].mode = "detailed"
    /\ runner[j].plan # NoPlan
    /\ runner[j].plan.error
    /\ runner[j].stop_seen = << >>
    /\ runner[j].pc = "done"

\* C9: a job whose plan has error = true records the plan's error code,
\* fetches no page, stores no company, and ends failed
C9_PlanErrorEndsFailed ==
    \A j \in 1..Len(jobs) :
        PlanErrorAndReturned(j) =>
            /\ jobs[j].error_message
                 = "Segmentation failed: " \o runner[j].plan.error_code
            /\ runner[j].credits_used = 0
            /\ \A c \in companies : c.job_id # j
            /\ jobs[j].status = "failed"

\* C26: when run() of a detailed job has returned, the persisted status of
\* the job is completed, failed or stopped, never pending or running.
C26_RunEndsInTerminalStatus ==
    \A j \in 1..Len(jobs) :
        (jobs[j].mode = "detailed" /\ runner[j].pc = "done")
        => jobs[j].status \in Terminal

\* C27: when the collection of a detailed job has ended (here: run() has
\* returned without an exception), the persisted actual_credits of the job
\* is the number of page fetches plus person searches the runner issued,
\* failed page fetches included.
C27_ActualCreditsCountEveryCall ==
    \A j \in 1..Len(jobs) :
        (jobs[j].mode = "detailed" /\ runner[j].pc = "done"
         /\ runner[j].exc = NULL)
        => jobs[j].actual_credits = runner[j].credits_used

\* C37: the registry holds the handle of a job exactly while its runner
\* has been started and the job has neither reached a terminal status nor
\* been stopped: no job whose runner has returned, and no job that is
\* completed, failed or stopped, has a handle in the registry, and every
\* detailed job whose runner is at work and was not stopped has one
C37_RegistryHoldsRunningJobsOnly ==
    \A j \in 1..Len(jobs) :
        /\ j \in running_jobs
              => /\ runner[j].pc # "done"
                 /\ jobs[j].status \notin Terminal
        /\ (/\ jobs[j].mode = "detailed"
            /\ runner[j].pc # "done"
            /\ ~ runner[j]._stop_requested
            /\ jobs[j].status \notin Terminal)
              => j \in running_jobs

\* C10: the companies table never holds two rows with the same non-null
\* stable identifier
C10_OneRowPerIdentifier ==
    \A c1, c2 \in companies :
        (c1.prospeo_company_id # NULL
         /\ c1.prospeo_company_id = c2.prospeo_company_id) => c1 = c2

\* the runner of job j passed a payload with stable identifier x to
\* _save_company: the job owns a row with x, or its insert of x was refused
Upserted(j, x) ==
    \/ \E c \in companies : c.job_id = j /\ c.prospeo_company_id = x
    \/ runner[j].exc = "IntegrityError"

\* C11: when two jobs have both upserted a company with the same stable
\* identifier and their runners have returned, neither upsert has failed
\* and the store holds a single row for that identifier
C11_ConcurrentUpsertsMerge ==
    \A j, k \in 1..Len(jobs) :
        (/\ j # k
         /\ runner[j].pc = "done" /\ runner[k].pc = "done"
         /\ Upserted(j, "X") /\ Upserted(k, "X"))
        => /\ runner[j].exc # "IntegrityError"
           /\ runner[k].exc # "IntegrityError"
           /\ Cardinality({ c \in companies : c.prospeo_company_id = "X" }) = 1

\* C14: when the runner of a job that skips existing companies has
\* returned without an exception, the companies_skipped counter of the job
\* row, as a poller reads it, is the number of companies the runner skipped,
\* and a job that skipped a company has a reference to a stored company
C14_SkipsAreLinkedAndCounted ==
    \A j \in 1..Len(jobs) :
        (/\ runner[j].pc = "done" /\ runner[j].exc = NULL
         /\ jobs[j].mode = "detailed" /\ jobs[j].skip_existing_companies)
        => /\ jobs[j].companies_skipped = runner[j].companies_skipped
           /\ runner[j].companies_skipped > 0
                => \E c \in companies, ref \in job_refs :
                        ref[1] = c.id /\ ref[2] = j

\* the companies of job j in the table
Collected(j) == { c \in companies : c.job_id = j }

\* C20: the step of a detailed job in which the enrichment fails ends with
\* the runner returned without exception, the job completed, no error
\* message written, and every company the job collected in the table
C20_EnrichmentFailureIsNotFatal ==
    [][\A j \in 1..Len(jobs) :
          (runner[j].pc = "finish" /\ runner'[j].enrichment = "failed")
          => /\ runner'[j].pc = "done"
             /\ runner'[j].exc = NULL
             /\ jobs'[j].status = "completed"
             /\ jobs'[j].error_message = NULL
             /\ { c \in View(j) : c.job_id = j } \subseteq Collected(j)']_vars

\* a job that collected a company, whose enrichment failed, and that is
\* completed
C20_Witness ==
    \E j \in 1..Len(jobs) :
        /\ runner[j].pc = "done"
        /\ runner[j].enrichment = "failed"
        /\ jobs[j].status = "completed"
        /\ Collected(j) # {}

\* ------------------------------------------------------------------------
\* Properties of the page loop of one job (under SpecWalk)
\* ------------------------------------------------------------------------

\* the pages of a plan in plan order: << segment, page >>, both from 1
RECURSIVE PlanPages(_, _)
PlanPages(segments, seg) ==
    IF seg > Len(segments) THEN << >>
    ELSE [p \in 1..segments[seg].pages |-> << seg, p >>]
         \o PlanPages(segments, seg + 1)

\* C18: the k-th page fetch of a job fetches the k-th page of its plan in
\* plan order, and no fetch starts while companies of the last page are
\* left; the company loop takes the companies of a page from the front,
\* one at a time, and drops the rest only on a stop request; a runner that
\* returned without stop request and exception has fetched every page
C18_PagesInPlanOrder ==
    [][\A j \in 1..Len(jobs) :
          LET r == runner[j]
              pages == PlanPages(r.plan.segments, 1)
              k == runner'[j].credits_used
          IN /\ (r.pc = "page" /\ k = r.credits_used + 1)
                => /\ r.companies_data = << >>
                   /\ k <= Len(pages)
                   /\ pages[k] =
                        IF runner'[j].pc = "company"
                        THEN << runner'[j].segment_idx, runner'[j].page >>
                        ELSE << runner'[j].segment_idx, runner'[j].page - 1 >>
             /\ (r.pc \in { "company", "save" }
                 /\ runner'[j].companies_data # r.companies_data)
                => \/ runner'[j].companies_data = Tail(r.companies_data)
                   \/ r._stop_requested /\ runner'[j].companies_data = << >>
             /\ (r.pc = "finish" /\ runner'[j].pc = "done"
                 /\ ~ r._stop_requested /\ ~ r.plan.error)
                => r.credits_used = Len(pages)]_vars

\* the job is at the single page of the second segment of its plan, after
\* the two pages of the first, with two companies of the page to handle
C18_Witness ==
    \E j \in 1..Len(jobs) :
        /\ runner[j].pc = "company"
        /\ runner[j].segment_idx = 2 /\ runner[j].page = 1
        /\ runner[j].plan.segments[1].pages = 2
        /\ runner[j].credits_used = 3
        /\ Len(runner[j].companies_data) = 2

\* ------------------------------------------------------------------------
\* Properties of the person-count routines (under SpecCounts)
\* ------------------------------------------------------------------------

\* the rows of person_counts of company c and query name q that are current
ActiveCounts(c, q) ==
    { r \in person_counts :
        r.company_id = c /\ r.query_name = q /\ r.is_active }

\* C13: after two calls of _save_person_count_result for the same company
\* and query name, the pair has exactly one current record, it is the one
\* the later call wrote, and the record of the earlier call is still stored
\* and not current
C13_LaterSaveIsCurrent ==
    (/\ Len(pc_calls) = 2
     /\ pc_calls[1].op = "save" /\ pc_calls[2].op = "save"
     /\ pc_calls[1].company_id = pc_calls[2].company_id
     /\ pc_calls[1].query_name = pc_calls[2].query_name)
    => LET active == ActiveCounts(pc_calls[2].company_id,
                                  pc_calls[2].query_name)
       IN /\ Cardinality(active) = 1
          /\ \A r \in active : r.id \in pc_calls[2].written
          /\ pc_calls[1].written # {}
          /\ \A r \in person_counts :
                r.id \in pc_calls[1].written => ~r.is_active

\* C15: a call of _process_person_counts with skip_existing_person_counts
\* for company 1 and "SDRs": when a fresh record with status ok is stored,
\* the call searches nothing and leaves a record of the current job with
\* the stored count and status; when the fresh stored record has status
\* error, the call runs the search
C15_SkipClonesOkRetriesError ==
    \A i \in 1..Len(pc_calls) :
        (/\ pc_calls[i].op = "process" /\ pc_calls[i].skip
         /\ pc_calls[i].company_id = 1 /\ pc_calls[i].query_name = "SDRs")
        => /\ StoredCount("ok", 1) \in person_counts
                => /\ pc_calls[i].searched = << >>
                   /\ \E r \in person_counts :
                        /\ r.job_id = pc_calls[i].job_id
                        /\ r.company_id = 1 /\ r.query_name = "SDRs"
                        /\ r.total_count = 5 /\ r.status = "ok"
           /\ StoredCount("error", 1) \in person_counts
                => pc_calls[i].searched # << >>

\* C28: a call of _process_person_counts that looks nothing up returns its
\* credits, searches at most twice, the domain root first and the website
\* root only when it is non-empty and differs from the domain root, and,
\* for a company with neither root, searches nothing and saves a record
\* with error code NO_DOMAIN_AVAILABLE and count 0
C28_DomainFirstThenWebsite ==
    \A i \in 1..Len(pc_calls) :
        LET c == pc_calls[i]
            company == CHOOSE x \in CountCompanies : x.id = c.company_id
            domain_root == registrable_root_domain(company.domain)
            website_root == registrable_root_domain(company.website)
        IN (c.op = "process" /\ ~c.skip)
           => /\ c.raised = NULL
              /\ Len(c.searched) <= 2
              /\ domain_root # << >>
                    => (c.searched # << >> /\ c.searched[1] = domain_root)
              /\ Len(c.searched) = 2
                    => /\ c.searched[2] = website_root
                       /\ website_root # << >>
                       /\ website_root # domain_root
              /\ (domain_root = << >> /\ website_root # << >>)
                    => c.searched = << website_root >>
              /\ (domain_root = << >> /\ website_root = << >>)
                    => /\ c.searched = << >>
                       /\ c.saving = NO_DOMAIN_RESULT
                       /\ \E id \in c.written :
                            \E r \in person_counts :
                                /\ r.id = id
                                /\ r.error_code = "NO_DOMAIN_AVAILABLE"
                                /\ r.total_count = 0

\* C30: every call of _find_existing_person_count returns, and what it
\* returns is nothing or a stored record of the query name that is active
\* and no older than max_data_age_days; for company 1, whose identifier the
\* stored record carries, it returns the stored record when that record is
\* one day old and nothing when it is older than the window
C30_LookupReturnsFreshActiveRecords ==
    \A i \in 1..Len(pc_calls) :
        LET c == pc_calls[i]
        IN c.op = "find"
           => /\ c.raised = NULL
              /\ c.existing # NULL
                    => /\ c.existing \in person_counts
                       /\ c.existing.query_name = c.query_name
                       /\ c.existing.is_active
                       /\ c.existing.age_days <= MAX_DATA_AGE_DAYS
              /\ (c.company_id = 1 /\ c.query_name = "SDRs")
                    => /\ \A status \in { "ok", "error" } :
                            StoredCount(status, 1) \in person_counts
                                => c.existing = StoredCount(status, 1)
                       /\ StoredCount("ok", 31) \in person_counts
                            => c.existing = NULL

\* C35: every call of _process_person_counts returns and leaves exactly one
\* record of the job for the company and the sub-query, written by that
\* call
C35_OneRecordPerCompanyAndQuery ==
    \A i \in 1..Len(pc_calls) :
        LET c == pc_calls[i]
        IN c.op = "process"
           => /\ c.raised = NULL
              /\ Cardinality(c.written) = 1
              /\ \A id \in c.written :
                    \E r \in person_counts :
                        /\ r.id = id
                        /\ r.job_id = c.job_id
                        /\ r.company_id = c.company_id
                        /\ r.query_name = c.query_name

\* ------------------------------------------------------------------------
\* Properties of the company lookup and upsert (under SpecIdentity)
\* ------------------------------------------------------------------------

\* the stored rows the three rules of the lookup match for payload d
IdRule(rows, d) ==
    { r \in rows : d.company_id # NULL
                   /\ r.prospeo_company_id = d.company_id }

DomainRule(rows, d) ==
    LET root == registrable_root_domain(OrUrl(d.domain, d.website))
    IN { r \in rows : /\ root # << >>
                      /\ \/ ColumnEquals(r.domain, root)
                         \/ ColumnEquals(r.website, root)
                         \/ ColumnLike(r.domain, root)
                         \/ ColumnLike(r.website, root) }

NameRule(rows, d) ==
    { r \in rows : d.name # NULL /\ Len(d.name) > 3 /\ r.name = d.name }

Ids(rows) == { r.id : r \in rows }

\* C16: every call of _find_existing_company_globally returns a row of the
\* first rule that matches any stored row, in the order identifier, root
\* domain, name (names longer than 3 characters only), and None when no
\* rule matches
C16_FirstMatchingRuleWins ==
    \A i \in 1..Len(id_calls) :
        LET e == id_calls[i]
            by_id == IdRule(e.rows, e.data)
            by_domain == DomainRule(e.rows, e.data)
            by_name == NameRule(e.rows, e.data)
        IN e.op = "find" =>
             IF by_id # {} THEN e.result \in Ids(by_id)
             ELSE IF by_domain # {} THEN e.result \in Ids(by_domain)
             ELSE IF by_name # {} THEN e.result \in Ids(by_name)
             ELSE e.result = 0

\* a lookup without identifier match where the domain rule and the name
\* rule match different rows, on a table that also holds a row with a
\* 3-character name
C16_Witness ==
    \E i \in 1..Len(id_calls) :
        LET e == id_calls[i]
        IN /\ e.op = "find"
           /\ IdRule(e.rows, e.data) = {}
           /\ DomainRule(e.rows, e.data) # {}
           /\ NameRule(e.rows, e.data) # {}
           /\ NameRule(e.rows, e.data) \cap DomainRule(e.rows, e.data) = {}
           /\ e.result \in Ids(DomainRule(e.rows, e.data))
           /\ \E r \in e.rows : r.name = "Ace"

\* the fields of a payload and of a stored row, and their null values
MergedFields == { "name", "domain", "website", "employee_count", "is_b2b" }

IsNull(f, v) ==
    IF f = "name" THEN v = NULL
    ELSE IF f \in { "domain", "website" } THEN v = NoUrl
    ELSE v = None

\* C17: when _save_company merges a payload into a stored row, every field
\* of the row ends with the incoming value if that is non-null and with its
\* previous value otherwise
C17_NonNullIncomingWins ==
    \A i \in 1..Len(id_calls) :
        LET e == id_calls[i]
        IN (e.op = "save" /\ e.result \in Ids(e.rows)) =>
             \A before \in e.rows, after \in companies :
                 (before.id = e.result /\ after.id = e.result
                  /\ \A k \in (i + 1)..Len(id_calls) :
                        id_calls[k].result # e.result)
                 => \A f \in MergedFields :
                       after[f] = IF IsNull(f, e.data[f]) THEN before[f]
                                  ELSE e.data[f]

\* ------------------------------------------------------------------------
\* Properties of the gateway call (under SpecPost)
\* ------------------------------------------------------------------------

\* a rate limit, a 5xx or a malformed answer
Transient(answer) ==
    \/ answer.status = 429
    \/ answer.status >= 500
    \/ answer.body \in { "text", "list" }

\* C19: a page fetch whose attempts were all answered by transient errors
\* was retried, made a bounded number of attempts, did not raise, and ended
\* with an error response, which made the page loop skip the page
C19_TransientErrorIsRetriedThenSkipped ==
    \A i \in 1..Len(http_calls) :
        LET c == http_calls[i]
        IN (\A k \in 1..Len(c.answers) : Transient(c.answers[k]))
           => /\ c.attempts > 1
              /\ c.attempts <= MAX_RETRIES + 1
              /\ c.raised = NULL
              /\ is_error(c.data)
              /\ c.page = "skipped"

\* the wait the retry-after header asks for, kept within 1..300 seconds
Waited(header) ==
    IF header.kind # "int" THEN 60
    ELSE IF header.value < 1 THEN 1
    ELSE IF header.value > 300 THEN 300
    ELSE header.value

\* C33: a call of _post makes at most 4 attempts; before each retry it was
\* answered 429 and slept the retry-after of that answer, kept within
\* 1..300 seconds, 60 when the header is missing or no number; a call whose
\* attempts were all answered 429 made 4 attempts, did not raise, and
\* returned an error response with error_code RATE_LIMIT_EXCEEDED
C33_RateLimitedCallGivesUp ==
    \A i \in 1..Len(http_calls) :
        LET c == http_calls[i]
        IN /\ c.attempts <= 4
           /\ Len(c.sleeps) = c.attempts - 1
           /\ \A k \in 1..Len(c.sleeps) :
                /\ c.answers[k].status = 429
                /\ c.sleeps[k] = Waited(c.answers[k].retry_after)
           /\ (\A k \in 1..Len(c.answers) : c.answers[k].status = 429)
                => /\ c.attempts = 4
                   /\ c.raised = NULL
                   /\ c.data.error = TRUE
                   /\ c.data.error_code = "RATE_LIMIT_EXCEEDED"
                   /\ c.data._http_status = 429

\* a call answered 429 four times, with a retry-after above the range,
\* one below it and one that is no number
C33_Witness ==
    \E i \in 1..Len(http_calls) :
        /\ \A k \in 1..Len(http_calls[i].answers) :
                http_calls[i].answers[k].status = 429
        /\ http_calls[i].attempts = 4
        /\ http_calls[i].sleeps = << 300, 1, 60 >>
        /\ http_calls[i].data.error_code = "RATE_LIMIT_EXCEEDED"

\* ------------------------------------------------------------------------
\* Properties of the HubSpot client (under SpecHubSpot)
\* ------------------------------------------------------------------------

\* the requests sent in the second that starts with request i
SentWithinSecond(i) ==
    { k \in 1..Len(hs_sent) :
        hs_sent[k] >= hs_sent[i] /\ hs_sent[k] < hs_sent[i] + Seconds(1) }

\* C22: the rate limiter of the HubSpot client is a window of 1.0 second
\* that admits at most 5 requests: no more than 5 requests are sent within
\* any 1.0-second window.
C22_AtMostFivePerSecond ==
    /\ hubspot_client.window_duration = Seconds(1)
    /\ hubspot_client.max_requests_per_window = 5
    /\ \A i \in 1..Len(hs_sent) : Cardinality(SentWithinSecond(i)) <= 5

\* C23: search_company_by_linkedin_handle and search_company_by_domain
\* called with None or "" return an empty list and send no request: the
\* request history of the rate limiter is as it was.
C23_EmptyArgumentSendsNothing ==
    [][ (hs_last' # hs_last /\ hs_last'.arg \in { NULL, "" })
        => /\ hs_last'.returned = << >>
           /\ hubspot_client'.request_times = hubspot_client.request_times
           /\ hs_sent' = hs_sent
           /\ clock' = clock ]_vars

C23_Witness ==
    /\ hs_last.method = "search_company_by_domain"
    /\ hs_last.arg = ""
    /\ hs_last.returned = << >>
    /\ Len(hs_sent) = 6
    /\ hs_sent[6] > Seconds(10)
    /\ Len(hubspot_client.request_times) = 6

\* ------------------------------------------------------------------------
\* Properties of one detailed job (under SpecWalk)
\* ------------------------------------------------------------------------

\* the rows of company_job_references, committed or pending, that link
\* company c to job j
LinksOf(c, j) ==
    { ref \in job_refs \cup session[j].refs : ref[1] = c /\ ref[2] = j }

\* C36: whatever pages the job has processed, no company is linked to the
\* job by more than one reference
C36_OneLinkPerCompanyAndJob ==
    \A j \in JobIds : \A c \in 1..(next_company_id - 1) :
        Cardinality(LinksOf(c, j)) <= 1

\* the job stored a company and then met it again on two later occasions,
\* on another page and in another segment, and holds one reference to it
C36_Witness ==
    /\ runner[1].pc = "done" /\ runner[1].exc = NULL
    /\ runner[1].companies_processed = 1
    /\ runner[1].companies_skipped = 2
    /\ runner[1].credits_used = 3
    /\ Len(runner[1].plan.segments) = 3
    /\ Cardinality(companies) = 1
    /\ \A c \in companies : Cardinality(LinksOf(c.id, 1)) = 1

\* C29: a stop request that arrives while a page is being fetched finds the
\* runner holding the fetched page; its next step drops the page, whatever
\* is left of it: no company is upserted, linked or searched for people, no
\* credit is spent, and the runner leaves the loops and never fetches again
C29_StoppedPageIsDiscarded ==
    [][/\ (/\ runner[1]._stop_requested /\ runner[1].pc = "company"
           /\ runner'[1] # runner[1])
          => /\ runner'[1].pc = "finish"
             /\ runner'[1].companies_data = << >>
             /\ runner'[1].credits_used = runner[1].credits_used
             /\ runner'[1].companies_processed = runner[1].companies_processed
             /\ runner'[1].companies_skipped = runner[1].companies_skipped
             /\ companies' = View(1)
             /\ job_refs' = RefsView(1)
             /\ person_counts' = person_counts
       /\ (/\ runner[1]._stop_requested
           /\ runner[1].pc \in {"finish", "except", "done"})
          => /\ runner'[1].pc \in {"finish", "except", "done"}
             /\ runner'[1].credits_used = runner[1].credits_used
             /\ runner'[1].companies_data = runner[1].companies_data
      ]_vars

\* the first page came back with companies while the stop request arrived,
\* more pages were planned, and the job ended with one fetch and no company
C29_Witness ==
    /\ runner[1].pc = "done" /\ runner[1].exc = NULL
    /\ runner[1].stop_seen # << >>
    /\ runner[1].stop_seen[1].pc = "company"
    /\ runner[1].stop_seen[1].credits_used = 1
    /\ returned >= 1
    /\ runner[1].credits_used = 1
    /\ runner[1].companies_processed = 0
    /\ runner[1].companies_skipped = 0
    /\ Len(runner[1].plan.segments) = 3
    /\ runner[1].plan.segments[1].pages = 2
    /\ companies = {}
    /\ job_refs = {}

\* C25: when the count query of a segment or sub-segment fails after the
\* top-level estimate succeeded, the plan has error=false, keeps that
\* segment with estimated_count 0 and pages 0, reports the counts of the
\* other segments as the gateway gives them and totals that are the sums
\* over the segments; the runner fetches no page of the failed segment.
C25_FailedSegmentIsEmpty ==
    [][ LET r == runner'[1]
            p == r.plan
        IN /\ (runner[1].pc = "plan" /\ r.pc \in { "page", "finish" }
                /\ failing # {})
              => /\ p.error = FALSE
                 /\ \E i \in 1..Len(p.segments) :
                      p.segments[i].filters \in failing
                 /\ \A i \in 1..Len(p.segments) :
                      LET seg == p.segments[i] IN
                      IF seg.filters \in failing
                      THEN seg.estimated_count = 0 /\ seg.pages = 0
                      ELSE /\ seg.estimated_count
                                = TotalCount(index, seg.filters)
                           /\ IsCeilPages(seg.pages, seg.estimated_count)
                 /\ p.total_estimated = SumOf(p.segments, "estimated_count")
                 /\ p.credits_estimate = SumOf(p.segments, "pages")
                 /\ jobs'[1].total_companies = p.total_estimated
           /\ (runner[1].pc = "page"
                /\ (r.credits_used = runner[1].credits_used + 1
                    \/ r.pc = "except"))
              => p.segments[r.segment_idx].filters \notin failing ]_vars

C25_Witness ==
    /\ failing = { USSegment }
    /\ runner[1].pc = "done"
    /\ jobs[1].status = "completed"
    /\ Len(runner[1].plan.segments) = 3
    /\ runner[1].plan.segments[1].filters = USSegment
    /\ runner[1].plan.segments[1].pages = 0
    /\ runner[1].plan.segments[2].pages = 1
    /\ runner[1].credits_used = 1

\* ------------------------------------------------------------------------
\* Properties of run_quick_tam_job (under SpecQuick)
\* ------------------------------------------------------------------------

SubQueries(run) == Len(run.submitted.person_filters)

QueryName(run, i) ==
    Get(run.submitted.person_filters[i], "name", "Unnamed Query")

PersonRequests(run) ==
    { k \in 1..Len(run.requests) :
        run.requests[k].endpoint = "/search-person" }

CompanyRequests(run) ==
    { k \in 1..Len(run.requests) :
        run.requests[k].endpoint = "/search-company" }

\* the search came back as an error response
Refused(answer) == answer.raised = NULL /\ is_error(answer.response)

\* the search raised, or came back as a success without a total
Broke(answer) ==
    \/ answer.raised # NULL
    \/ /\ ~ is_error(answer.response)
       /\ "total_count" \notin DOMAIN get_pagination(answer.response)

\* the count the aggregate results hold for sub-query i: the one of the
\* last sub-query of that name, 0 for an error response
CountOf(run, i) ==
    LET last == CHOOSE k \in i..SubQueries(run) :
                    /\ QueryName(run, k) = QueryName(run, i)
                    /\ \A m \in (k + 1)..SubQueries(run) :
                            QueryName(run, m) # QueryName(run, i)
        answer == run.answers[last + 1]
    IN IF Refused(answer) THEN 0
       ELSE get_pagination(answer.response).total_count

\* C31 as stated: every call of run_quick_tam_job ends completed or failed
\* after exactly one company search; when the company search succeeded it
\* made one person search per sub-query and actual_credits is 1 plus their
\* number; when the company search failed the job is failed and no person
\* search was made; a person search that failed left count 0 for its
\* sub-query and did not fail the job
C31_OneSearchPerSubQuery ==
    \A c \in 1..Len(quick_runs) :
        LET run == quick_runs[c]
            first == run.answers[1]
        IN /\ run.job.status \in { "completed", "failed" }
           /\ CompanyRequests(run) = { 1 }
           /\ (first.raised = NULL /\ ~ is_error(first.response))
                => /\ Cardinality(PersonRequests(run)) = SubQueries(run)
                   /\ run.job.actual_credits = 1 + SubQueries(run)
                   /\ Len(run.requests) = run.job.actual_credits
           /\ (first.raised # NULL \/ is_error(first.response))
                => /\ run.job.status = "failed"
                   /\ PersonRequests(run) = {}
           /\ \A k \in PersonRequests(run) :
                (Refused(run.answers[k]) \/ run.answers[k].raised # NULL)
                    => /\ run.job.status # "failed"
                       /\ run.job.aggregate_results # None
                       /\ CountOf(run, k - 1) = 0

\* C31, amended: every call of run_quick_tam_job ends completed or failed
\* after exactly one company search followed by person searches only, one
\* per sub-query in order.  When no search raised or came back without a
\* total, and the company search was not refused, the job is completed, it
\* made all the person searches, actual_credits is 1 plus their number, and
\* the aggregate results hold the gateway's count for every sub-query, 0
\* for a refused one.  Otherwise the job is failed at that search: it is
\* the last one made, and actual_credits and the aggregate results are
\* unset
C31_OneSearchPerSubQueryUnlessRaised ==
    \A c \in 1..Len(quick_runs) :
        LET run == quick_runs[c]
            n == SubQueries(run)
            ended == \/ Refused(run.answers[1])
                     \/ \E k \in 1..Len(run.answers) : Broke(run.answers[k])
        IN /\ run.job.status \in { "completed", "failed" }
           /\ CompanyRequests(run) = { 1 }
           /\ PersonRequests(run) = 2..Len(run.requests)
           /\ Len(run.requests) <= 1 + n
           /\ ~ ended
                => /\ run.job.status = "completed"
                   /\ Len(run.requests) = 1 + n
                   /\ run.job.actual_credits = 1 + n
                   /\ run.job.aggregate_results # None
                   /\ DOMAIN run.job.aggregate_results[1]
                        = { QueryName(run, i) : i \in 1..n }
                   /\ \A i \in 1..n :
                        run.job.aggregate_results[1][QueryName(run, i)]
                            = CountOf(run, i)
           /\ ended
                => /\ run.job.status = "failed"
                   /\ run.job.actual_credits = 0
                   /\ run.job.aggregate_results = None
                   /\ \A k \in 1..(Len(run.answers) - 1) :
                        ~ Broke(run.answers[k])
                   /\ Refused(run.answers[1]) => Len(run.requests) = 1

\* a job with two sub-queries whose first person search was refused and
\* which completed with three credits and count 0 for that sub-query
C31_Witness ==
    /\ Len(quick_runs) = 1
    /\ quick_runs[1].job.status = "completed"
    /\ SubQueries(quick_runs[1]) = 2
    /\ QueryName(quick_runs[1], 1) = "SDRs"
    /\ QueryName(quick_runs[1], 2) = "Unnamed Query"
    /\ Refused(quick_runs[1].answers[2])
    /\ quick_runs[1].job.actual_credits = 3
    /\ quick_runs[1].job.aggregate_results[1]["SDRs"] = 0
    /\ quick_runs[1].job.aggregate_results[1]["Unnamed Query"] = 7

\* ------------------------------------------------------------------------
\* Properties of the rate limiter (under SpecLimiter)
\* ------------------------------------------------------------------------

\* C32: any two consecutive requests of the client are sent at least
\* min_interval apart, min_interval being the value the limiter read for
\* the later of the two
C32_RequestsAreSpaced ==
    \A k \in 1..(Len(prospeo_sent) - 1) :
        prospeo_sent[k + 1].at - prospeo_sent[k].at
            >= prospeo_sent[k + 1].min_interval

====
